---- MODULE Spec2Model ----
(***************************************************************************)
(* Model of the Bonfire front end (src/src/App.tsx): the Home component's  *)
(* oracle table.  loadData fetches one reference (Hermes) price and one    *)
(* on-chain round per configured oracle and builds the rows; the render    *)
(* derives the divergence ratio, the minutes since update and the two      *)
(* colour classes of every row.                                            *)
(*                                                                         *)
(* JavaScript numbers are modelled as IEEE 754 doubles: every operation    *)
(* rounds its exact result to the nearest double, as the engine does.      *)
(***************************************************************************)
EXTENDS Integers, Sequences, FiniteSets, TLC

(***************************************************************************)
(* Natural numbers of any size, for the 53-bit significands of JavaScript  *)
(* numbers: a sequence of limbs in base 2^15, least significant first,     *)
(* without a zero limb at the end; zero is the empty sequence.             *)
(***************************************************************************)
LimbBits == 15

LimbBase == 32768

IAbs(i) == IF i < 0 THEN -i ELSE i

ISign(i) == IF i < 0 THEN -1 ELSE IF i > 0 THEN 1 ELSE 0

IMin(a, b) == IF a < b THEN a ELSE b

IMax(a, b) == IF a < b THEN b ELSE a

RECURSIVE IPow10(_)
IPow10(i) == IF i <= 0 THEN 1 ELSE 10 * IPow10(i - 1)

RECURSIVE IPow2(_)
IPow2(i) == IF i <= 0 THEN 1 ELSE 2 * IPow2(i - 1)

\* Number of bits of a non-negative integer.
RECURSIVE IBitLen(_)
IBitLen(i) == IF i = 0 THEN 0 ELSE 1 + IBitLen(i \div 2)

\* Number of zero bits at the low end of a positive integer.
RECURSIVE ITrailingZeros(_)
ITrailingZeros(i) == IF i % 2 = 1 THEN 0 ELSE 1 + ITrailingZeros(i \div 2)

\* The value v, once x has been evaluated.  An operator evaluates what it
\* is given where it first uses it, which may be many operators further
\* down; this keeps the evaluation of long numbers shallow.
After(x, v) == CASE x = x -> v

\* a without the zero limbs at its end.
BTrim(a) ==
    IF a = <<>> \/ a[Len(a)] # 0 THEN a
    ELSE LET nz == {i \in 1..Len(a) : a[i] # 0}
         IN  IF nz = {} THEN <<>>
             ELSE SubSeq(a, 1, CHOOSE i \in nz : \A j \in nz : j <= i)

RECURSIVE BFromInt(_)
BFromInt(i) ==
    IF i = 0 THEN <<>> ELSE <<i % LimbBase>> \o BFromInt(i \div LimbBase)

\* The integer of a natural number that fits one.
RECURSIVE BToInt(_)
BToInt(a) == IF a = <<>> THEN 0 ELSE a[1] + LimbBase * BToInt(Tail(a))

Limb(a, i) == IF i <= Len(a) THEN a[i] ELSE 0

\* The operations below walk the limbs lo..hi by halves, so that the depth
\* of the evaluation is the logarithm of the length.

\* -1, 0 or 1 as limbs lo..hi of a are below, equal to or above those of b.
RECURSIVE BCmpRange(_, _, _, _)
BCmpRange(a, b, lo, hi) ==
    IF lo > hi THEN 0
    ELSE IF lo = hi THEN ISign(a[lo] - b[lo])
    ELSE LET mid  == (lo + hi) \div 2
             high == BCmpRange(a, b, mid + 1, hi)
         IN  IF high # 0 THEN high ELSE BCmpRange(a, b, lo, mid)

BCmp(a, b) ==
    IF Len(a) < Len(b) THEN -1
    ELSE IF Len(a) > Len(b) THEN 1
    ELSE BCmpRange(a, b, 1, Len(a))

\* Limbs lo..hi of a + b + c for a carry c into limb lo, and the carry out
\* of limb hi.
RECURSIVE BAddRange(_, _, _, _, _)
BAddRange(a, b, lo, hi, c) ==
    IF lo > hi THEN [v |-> <<>>, c |-> c]
    ELSE IF lo = hi
         THEN LET s == Limb(a, lo) + Limb(b, lo) + c
              IN  [v |-> <<s % LimbBase>>, c |-> s \div LimbBase]
    ELSE LET mid  == (lo + hi) \div 2
             low  == BAddRange(a, b, lo, mid, c)
             high == BAddRange(a, b, mid + 1, hi, low.c)
         IN  [v |-> low.v \o high.v, c |-> high.c]

\* The limbs r.v with the carry r.c as one more limb when there is one.
WithCarry(r) == IF r.c = 0 THEN r.v ELSE Append(r.v, r.c)

BAdd(a, b) == WithCarry(BAddRange(a, b, 1, IMax(Len(a), Len(b)), 0))

\* Limbs lo..hi of a - b - c for a borrow c from limb lo, and the borrow
\* from limb hi + 1.
RECURSIVE BSubRange(_, _, _, _, _)
BSubRange(a, b, lo, hi, c) ==
    IF lo > hi THEN [v |-> <<>>, c |-> c]
    ELSE IF lo = hi
         THEN LET s == a[lo] - Limb(b, lo) - c
              IN  [v |-> <<IF s < 0 THEN s + LimbBase ELSE s>>,
                   c |-> IF s < 0 THEN 1 ELSE 0]
    ELSE LET mid  == (lo + hi) \div 2
             low  == BSubRange(a, b, lo, mid, c)
             high == BSubRange(a, b, mid + 1, hi, low.c)
         IN  [v |-> low.v \o high.v, c |-> high.c]

\* a - b for a >= b
BSub(a, b) == BTrim(BSubRange(a, b, 1, Len(a), 0).v)

\* Limbs lo..hi of a * k + c for 0 < k < 2^15 and a carry c into limb lo,
\* and the carry out of limb hi.
RECURSIVE BMulSmallRange(_, _, _, _, _)
BMulSmallRange(a, k, lo, hi, c) ==
    IF lo > hi THEN [v |-> <<>>, c |-> c]
    ELSE IF lo = hi
         THEN LET s == a[lo] * k + c
              IN  [v |-> <<s % LimbBase>>, c |-> s \div LimbBase]
    ELSE LET mid  == (lo + hi) \div 2
             low  == BMulSmallRange(a, k, lo, mid, c)
             high == BMulSmallRange(a, k, mid + 1, hi, low.c)
         IN  [v |-> low.v \o high.v, c |-> high.c]

\* a * k for 0 <= k < 2^15
BMulSmall(a, k) ==
    IF k = 0 THEN <<>> ELSE WithCarry(BMulSmallRange(a, k, 1, Len(a), 0))

\* a * 2^(15 n)
BShiftLimbs(a, n) == IF a = <<>> THEN <<>> ELSE [i \in 1..n |-> 0] \o a

\* a + b, the two evaluated before they are added.
BSum(a, b) == After(<<a, b>>, BAdd(a, b))

\* a * (limbs lo..hi of b, at their places)
RECURSIVE BMulRange(_, _, _, _)
BMulRange(a, b, lo, hi) ==
    IF lo > hi THEN <<>>
    ELSE IF lo = hi THEN BShiftLimbs(BMulSmall(a, b[lo]), lo - 1)
    ELSE BSum(BMulRange(a, b, lo, (lo + hi) \div 2),
              BMulRange(a, b, (lo + hi) \div 2 + 1, hi))

\* a * b: the longer of the two times the limbs of the shorter.
BMul(a, b) ==
    BMulRange(IF Len(a) < Len(b) THEN b ELSE a,
              IF Len(a) < Len(b) THEN a ELSE b, 1, IMin(Len(a), Len(b)))

\* a * 2^n
BShl(a, n) == BShiftLimbs(BMulSmall(a, IPow2(n % LimbBits)), n \div LimbBits)

\* floor(a / 2^n)
BShr(a, n) ==
    LET skip == n \div LimbBits
        low  == IPow2(n % LimbBits)
        high == IPow2(LimbBits - (n % LimbBits))
    IN  IF skip >= Len(a) THEN <<>>
        ELSE BTrim([i \in 1..(Len(a) - skip) |->
                       a[skip + i] \div low + (Limb(a, skip + i + 1) % low) * high])

\* Number of bits of a.
BLen(a) ==
    IF a = <<>> THEN 0 ELSE LimbBits * (Len(a) - 1) + IBitLen(a[Len(a)])

BIsOdd(a) == a # <<>> /\ a[1] % 2 = 1

\* Number of zero bits at the low end of a, a # 0.
BTrailingZeros(a) ==
    LET i == CHOOSE i \in 1..Len(a) : a[i] # 0 /\ \A j \in 1..(i - 1) : a[j] = 0
    IN  LimbBits * (i - 1) + ITrailingZeros(a[i])

BSquare(a) == BMul(a, a)

\* half * half * f for 0 < f < 2^15.
BPowStep(half, f) == After(half, BMulSmall(BSquare(half), f))

\* k^n for 0 < k < 2^15.
RECURSIVE BPowSmall(_, _)
BPowSmall(k, n) ==
    IF n <= 0 THEN <<1>>
    ELSE BPowStep(BPowSmall(k, n \div 2), IF n % 2 = 0 THEN 1 ELSE k)

\* The largest q with b * q <= cur, from the estimate est >= q.
RECURSIVE BQuotientLimb(_, _, _)
BQuotientLimb(cur, b, est) ==
    IF BCmp(BMulSmall(b, est), cur) > 0 THEN BQuotientLimb(cur, b, est - 1) ELSE est

\* The estimate of the next quotient limb from the first limbs of cur and
\* the last limb of b: never below the limb, and at most LimbBase - 1.
BEstimate(cur, b) ==
    IF Len(cur) < Len(b) THEN 0
    ELSE IMin(LimbBase - 1,
              (Limb(cur, Len(b) + 1) * LimbBase + cur[Len(b)]) \div b[Len(b)])

\* Long division by b, of at least two limbs the last of which is at least
\* 2^14: with the quotient limbs q above limb i, the quotient limbs and the
\* remainder of (r * 2^(15 i) + limbs 1..i of a), for r < b.  BLongDivLimb
\* divides cur, the remainder so far with limb i of a below it, and
\* BLongDivRest goes on below the limb qd.
RECURSIVE BLongDivFrom(_, _, _, _, _), BLongDivLimb(_, _, _, _, _),
          BLongDivRest(_, _, _, _, _, _)
BLongDivFrom(a, b, i, r, q) ==
    IF i = 0 THEN [q |-> q, r |-> r]
    ELSE BLongDivLimb(a, b, i, BTrim(<<a[i]>> \o r), q)

BLongDivLimb(a, b, i, cur, q) ==
    BLongDivRest(a, b, i, cur, q, BQuotientLimb(cur, b, BEstimate(cur, b)))

BLongDivRest(a, b, i, cur, q, qd) ==
    After(<<q, qd>>,
          BLongDivFrom(a, b, i - 1, BSub(cur, BMulSmall(b, qd)), <<qd>> \o q))

\* Quotient and remainder of a1 by b1, both scaled by 2^s from a and b.
BDivScaled(a1, b1, s) ==
    BLongDivFrom(a1, b1, Len(a1) - Len(b1) + 1,
                 SubSeq(a1, Len(a1) - Len(b1) + 2, Len(a1)), <<>>)

\* The quotient d.q, and the remainder d.r without its scale of 2^s.
BUnscaled(d, s) == [q |-> BTrim(d.q), r |-> BShr(d.r, s)]

\* Bits by which b is scaled to bring its last limb to 2^14 or more and
\* its limbs to two or more.
BDivScale(b) ==
    LimbBits - IBitLen(b[Len(b)]) + (IF Len(b) = 1 THEN LimbBits ELSE 0)

\* Quotient and remainder of a by b, b # 0, for a quotient of a few limbs:
\* both are scaled, and the division starts from the limbs of a that are
\* below b whatever they are.
BDivMod(a, b) ==
    IF BCmp(a, b) < 0 THEN [q |-> <<>>, r |-> a]
    ELSE BUnscaled(BDivScaled(BShl(a, BDivScale(b)), BShl(b, BDivScale(b)),
                              BDivScale(b)),
                   BDivScale(b))

(***************************************************************************)
(* Numbers.  A JavaScript number is an IEEE 754 double: NaN, an infinity   *)
(* or the finite s * m * 2^e with s the sign, m the significand below 2^53 *)
(* and e at least -1074.  In canonical form m is odd, and zero is          *)
(* 0 * 2^0, so that equal numbers are equal records.  The sign of zero is  *)
(* not kept: no output of the program depends on it.                       *)
(***************************************************************************)
NaN == [k |-> "nan", s |-> 0, m |-> <<>>, e |-> 0]

Inf(s) == [k |-> "inf", s |-> s, m |-> <<>>, e |-> 0]

Zero == [k |-> "fin", s |-> 0, m |-> <<>>, e |-> 0]

\* Number of bits of the significand of a double.
SignificandBits == 53

\* Exponent of the last bit of the smallest doubles.
MinBitExp == -1074

\* Exponent of the first power of two that is no double.
MaxBinExp == 1024

\* The finite number s * m * 2^e for m # 0 of at most 53 bits, z of them
\* zero at its low end.
Shifted(s, m, e, z) == [k |-> "fin", s |-> s, m |-> BShr(m, z), e |-> e + z]

Canonical(s, m, e) == Shifted(s, m, e, BTrailingZeros(m))

\* s * m * 2^e for m of at most 53 bits, or 2^53: an infinity from 2^1024.
Finite(s, m, e) ==
    IF m = <<>> THEN Zero
    ELSE IF BLen(m) + e > MaxBinExp THEN Inf(s)
    ELSE Canonical(s, m, e)

\* The quotient q taken to the nearest integer, the even one at a tie: c is
\* -1, 0 or 1 as twice the remainder is below, equal to or above the
\* divisor.
Nearest(q, c) ==
    IF c > 0 \/ (c = 0 /\ BIsOdd(q)) THEN BAdd(q, <<1>>) ELSE q

\* The multiple of 2^e nearest to s * (n1 / d1) * 2^e, from the quotient
\* and remainder qr of n1 by d1.
RoundQuotient(s, e, d1, qr) ==
    After(qr, Finite(s, Nearest(qr.q, BCmp(BShl(qr.r, 1), d1)), e))

RoundDivide(s, e, n1, d1) == RoundQuotient(s, e, d1, BDivMod(n1, d1))

\* The multiple of 2^e nearest to s * (num / den) * 2^e2.
RoundTo(s, num, den, e2, e) ==
    RoundDivide(s, e, BShl(num, IMax(e2 - e, 0)), BShl(den, IMax(e - e2, 0)))

\* The double nearest to s * (num / den) * 2^e2, for
\* 2^top <= num / den < 2^(top + 1).
RoundFrom(s, num, den, e2, top) ==
    IF top + e2 > MaxBinExp THEN Inf(s)
    ELSE IF top + e2 < MinBitExp - 1 THEN Zero
    ELSE RoundTo(s, num, den, e2,
                 IMax(top + e2 - (SignificandBits - 1), MinBitExp))

\* The exponent of the first bit of num / den, from the difference bl of
\* the bit lengths of the two.
TopBit(num, den, bl) ==
    IF BCmp(BShl(num, IMax(-bl, 0)), BShl(den, IMax(bl, 0))) >= 0
    THEN bl ELSE bl - 1

\* The double nearest to s * (num / den) * 2^e2, the one with the even
\* significand at a tie (num, den # 0): round to nearest, ties to even,
\* with overflow to an infinity and underflow to the smallest doubles and
\* to zero.
Round(s, num, den, e2) ==
    After(<<num, den>>,
          RoundFrom(s, num, den, e2, TopBit(num, den, BLen(num) - BLen(den))))

\* The double nearest to n * 10^e / d for integers n, d, e, d > 0: the
\* value of a decimal literal.
Norm(n, d, e) ==
    IF n = 0 THEN Zero
    ELSE Round(ISign(n),
               BMul(BFromInt(IAbs(n)), BPowSmall(10, e)),
               BMul(BFromInt(d), BPowSmall(10, -e)), 0)

\* An integer of the model, below 2^31, is a double as it stands.
FromInt(i) ==
    IF i = 0 THEN Zero ELSE Canonical(ISign(i), BFromInt(IAbs(i)), 0)

\* The quotient num / den of two integers as a number, den > 0.
Ratio(num, den) == Norm(num, den, 0)

IsFinite(x) == x.k = "fin"

IsNaN(x) == x.k = "nan"

\* -1, 0 or 1; NaN has no sign and is never passed.
Sign(x) == x.s

Neg(x) == [x EXCEPT !.s = -x.s]

\* Math.abs
Abs(x) == [x EXCEPT !.s = IAbs(x.s)]

\* The double nearest to s * m * 2^e: the number itself when m has at most
\* 53 bits and the exponents are those of a double.
Exact(s, m, e) ==
    IF m = <<>> THEN Zero
    ELSE IF BLen(m) <= SignificandBits /\ e >= MinBitExp
                /\ BLen(m) + e <= MaxBinExp
         THEN Canonical(s, m, e)
    ELSE Round(s, m, <<1>>, e)

\* x * y
Mul(x, y) ==
    IF x.k = "nan" \/ y.k = "nan" THEN NaN
    ELSE IF x.k = "inf" \/ y.k = "inf"
         THEN IF x.s * y.s = 0 THEN NaN ELSE Inf(x.s * y.s)
    ELSE Exact(x.s * y.s, BMul(x.m, y.m), x.e + y.e)

\* -1, 0 or 1 as |x| is below, equal to or above |y|, for finite x and y.
CmpAbs(x, y) ==
    IF x.s = 0 \/ y.s = 0 THEN IAbs(x.s) - IAbs(y.s)
    ELSE IF BLen(x.m) + x.e # BLen(y.m) + y.e
         THEN (IF BLen(x.m) + x.e < BLen(y.m) + y.e THEN -1 ELSE 1)
    ELSE LET e0 == IMin(x.e, y.e)
         IN  BCmp(BShl(x.m, x.e - e0), BShl(y.m, y.e - e0))

\* xs * a * 2^e0 - ys * b * 2^e0 for signs xs, ys and a, b # 0: the sum
\* of the two under the sign xs when the signs differ, and else their
\* difference under the sign of the larger.
SubAligned(xs, ys, a, b, e0) ==
    Exact(IF xs # ys \/ BCmp(a, b) >= 0 THEN xs ELSE -xs,
          IF xs # ys THEN BAdd(a, b)
          ELSE IF BCmp(a, b) >= 0 THEN BSub(a, b) ELSE BSub(b, a),
          e0)

\* x - y
Sub(x, y) ==
    IF x.k = "nan" \/ y.k = "nan" THEN NaN
    ELSE IF x.k = "inf"
         THEN IF y.k = "inf" /\ y.s = x.s THEN NaN ELSE x
    ELSE IF y.k = "inf" THEN Inf(-y.s)
    ELSE IF y.s = 0 THEN x
    ELSE IF x.s = 0 THEN Neg(y)
    \* An operand below an eighth of the last place of the other does not
    \* change it.
    ELSE IF BLen(x.m) + x.e > BLen(y.m) + y.e + SignificandBits + 3 THEN x
    ELSE IF BLen(y.m) + y.e > BLen(x.m) + x.e + SignificandBits + 3 THEN Neg(y)
    ELSE SubAligned(x.s, y.s, BShl(x.m, x.e - IMin(x.e, y.e)),
                    BShl(y.m, y.e - IMin(x.e, y.e)), IMin(x.e, y.e))

\* x / y
Div(x, y) ==
    IF x.k = "nan" \/ y.k = "nan" THEN NaN
    ELSE IF x.k = "inf"
         THEN IF y.k = "inf" THEN NaN
              ELSE Inf(IF y.s < 0 THEN -x.s ELSE x.s)
    ELSE IF y.k = "inf" THEN Zero
    ELSE IF y.s = 0 THEN (IF x.s = 0 THEN NaN ELSE Inf(x.s))
    ELSE IF x.s = 0 THEN Zero
    ELSE Round(x.s * y.s, x.m, y.m, x.e - y.e)

\* x < y; every comparison with NaN is false.
Lt(x, y) ==
    IF x.k = "nan" \/ y.k = "nan" THEN FALSE
    ELSE IF x.k = "inf" THEN x.s < 0 /\ ~(y.k = "inf" /\ y.s < 0)
    ELSE IF y.k = "inf" THEN y.s > 0
    ELSE IF x.s # y.s THEN x.s < y.s
    \* of one sign: the larger below zero is the smaller
    ELSE x.s * CmpAbs(x, y) < 0

\* x === y on numbers: NaN differs from everything, itself included.
StrictEq(x, y) == x.k # "nan" /\ y.k # "nan" /\ x = y

(***************************************************************************)
(* JavaScript conversions used by loadData.                                *)
(***************************************************************************)
\* A string is the sequence of its UTF-16 code units, as the engine holds
\* it: "25" is <<50, 53>>.  The code units of the digits 0 to 9.
DigitChars == 48..57

\* The value of a digit of a numeric literal, 16 for any other character:
\* 0-9, a-f and A-F.
DigitVal(c) ==
    IF c \in 48..57 THEN c - 48
    ELSE IF c \in 97..102 THEN c - 87
    ELSE IF c \in 65..70 THEN c - 55
    ELSE 16

\* The WhiteSpace and LineTerminator characters Number() strips: tab
\* (U+0009), line feed (U+000A), vertical tab (U+000B), form feed (U+000C),
\* carriage return (U+000D), space (U+0020), no-break space (U+00A0),
\* U+1680, U+2028, U+2029, U+202F, U+205F, U+3000, the byte order mark
\* (U+FEFF) and U+2000 to U+200A.  Every other code unit, U+0085, U+180E
\* and U+200B among them, stays in the literal.
WhiteSpaceChars ==
    {9, 10, 11, 12, 13, 32, 160, 5760, 8232, 8233, 8239, 8287, 12288, 65279}
        \cup 8192..8202

\* s from its first code unit that is no white space.
TrimStart(s) ==
    LET keep == {i \in 1..Len(s) : s[i] \notin WhiteSpaceChars}
    IN  IF keep = {} THEN <<>>
        ELSE SubSeq(s, CHOOSE i \in keep : \A j \in keep : i <= j, Len(s))

\* s up to its last code unit that is no white space.
TrimEnd(s) ==
    LET keep == {i \in 1..Len(s) : s[i] \notin WhiteSpaceChars}
    IN  IF keep = {} THEN <<>>
        ELSE SubSeq(s, 1, CHOOSE i \in keep :
                              \A j \in (i + 1)..Len(s) : s[j] \in WhiteSpaceChars)

\* Whether s is a non-empty run of digits of the base.
IsDigits(s, base) == s # <<>> /\ \A i \in 1..Len(s) : DigitVal(s[i]) < base

\* high * shift + low, the two halves evaluated before they are joined,
\* which keeps the evaluation of a long run of digits shallow.
DigitsJoin(high, low, shift) ==
    After(<<high, low>>, BAdd(BMul(high, shift), low))

\* Value of the digits lo..hi of s in the base, most significant first.
RECURSIVE DigitsRange(_, _, _, _)
DigitsRange(s, base, lo, hi) ==
    IF lo > hi THEN <<>>
    ELSE IF lo = hi THEN BFromInt(DigitVal(s[lo]))
    ELSE DigitsJoin(DigitsRange(s, base, lo, (lo + hi) \div 2),
                    DigitsRange(s, base, (lo + hi) \div 2 + 1, hi),
                    BPowSmall(base, hi - (lo + hi) \div 2))

DigitsValue(s, base) == DigitsRange(s, base, 1, Len(s))

\* Position of the first code unit of s that is in cs, 0 when there is none.
FirstOf(s, cs) ==
    IF \E i \in 1..Len(s) : s[i] \in cs
    THEN CHOOSE i \in 1..Len(s) : s[i] \in cs /\ \A j \in 1..(i - 1) : s[j] \notin cs
    ELSE 0

\* Decimal exponents beyond which every literal is an infinity or zero.
MaxLiteralExp == 400

\* The significant digits of a literal that can decide its rounding: the
\* value halfway between two doubles has fewer than 800 of them.
MaxSignificant == 800

\* s from its first digit that is not 0.
Significant(s) ==
    IF FirstOf(s, DigitChars \ {48}) = 0 THEN <<>>
    ELSE SubSeq(s, FirstOf(s, DigitChars \ {48}), Len(s))

\* The value of the digits ds of an exponent part, of any size.  One of
\* more than ten significant digits is beyond the length of every string
\* and decides the literal by its sign alone: it counts as 10^10.
LiteralExp(ds) ==
    IF Len(Significant(ds)) > 10 THEN BPowSmall(10, 10)
    ELSE DigitsValue(Significant(ds), 10)

\* Whether sg * ex + d > lim, for the natural number ex of any size.
ExpAbove(ex, sg, d, lim) ==
    IF sg > 0
    THEN lim - d < 0 \/ BCmp(ex, BFromInt(IMax(lim - d, 0))) > 0
    ELSE lim - d < 0 /\ BCmp(ex, BFromInt(IMax(d - lim, 0))) < 0

\* The digits of sig that decide the nearest double: the first
\* MaxSignificant of them and one more that tells whether any digit after
\* them is not 0.
Deciding(sig) ==
    IF Len(sig) <= MaxSignificant + 1 THEN sig
    ELSE Append(SubSeq(sig, 1, MaxSignificant),
                IF FirstOf(SubSeq(sig, MaxSignificant + 1, Len(sig)),
                           DigitChars \ {48}) = 0
                THEN 48 ELSE 49)

\* sig up to its last digit that is not 0, sig # <<>> beginning with one.
Ending(sig) ==
    SubSeq(sig, 1, CHOOSE i \in 1..Len(sig) :
                       sig[i] # 48 /\ \A j \in (i + 1)..Len(sig) : sig[j] = 48)

\* sign * v * 10^ex for the value v of the deciding digits.
LiteralRounded(sign, v, ex) ==
    After(v, Round(sign, BMul(v, BPowSmall(10, ex)), BPowSmall(10, -ex), 0))

\* sign * sig * 10^ex for digits sig that begin and end with one that is
\* not 0.
LiteralDigits(sign, sig, ex) ==
    LiteralRounded(sign, DigitsValue(Deciding(sig), 10),
                   ex + Len(sig) - Len(Deciding(sig)))

\* sign * 0.sig * 10^(Len(sig) - flen + sg * ex) for the digits sig, the
\* first of which is not 0: beyond MaxLiteralExp either way the value is an
\* infinity or zero whatever the digits.
LiteralScaled(sign, sig, flen, ex, sg) ==
    IF sig = <<>> THEN Zero
    ELSE IF ExpAbove(ex, sg, Len(sig) - flen, MaxLiteralExp) THEN Inf(sign)
    ELSE IF ExpAbove(ex, -sg, flen - Len(sig), MaxLiteralExp) THEN Zero
    ELSE LiteralDigits(sign, Ending(sig),
                       sg * BToInt(ex) - flen + Len(sig) - Len(Ending(sig)))

\* The value of the digits digs, flen of them after the point, with the
\* exponent part etail when hasExp.
LiteralValue(sign, digs, flen, hasExp, etail) ==
    IF digs = <<>> \/ ~IsDigits(digs, 10)
           \/ (hasExp /\ ~IsDigits(IF etail # <<>> /\ etail[1] \in {43, 45}
                                    THEN Tail(etail) ELSE etail, 10))
    THEN NaN
    ELSE IF ~hasExp THEN LiteralScaled(sign, Significant(digs), flen, <<>>, 1)
    ELSE LiteralScaled(sign, Significant(digs), flen,
                       LiteralExp(IF etail[1] \in {43, 45}
                                  THEN Tail(etail) ELSE etail),
                       IF etail[1] = 45 THEN -1 ELSE 1)

\* The value of the mantissa mant, with its point at ppos (0: no point).
LiteralPoint(sign, mant, ppos, hasExp, etail) ==
    LiteralValue(sign,
                 IF ppos = 0 THEN mant
                 ELSE SubSeq(mant, 1, ppos - 1) \o SubSeq(mant, ppos + 1, Len(mant)),
                 IF ppos = 0 THEN 0 ELSE Len(mant) - ppos,
                 hasExp, etail)

LiteralMantissa(sign, mant, hasExp, etail) ==
    LiteralPoint(sign, mant, FirstOf(mant, {46}), hasExp, etail)

\* The value of the literal s whose exponent part starts at epos (0: none).
LiteralParts(s, sign, epos) ==
    LiteralMantissa(sign, IF epos = 0 THEN s ELSE SubSeq(s, 1, epos - 1),
                    epos # 0, IF epos = 0 THEN <<>> ELSE SubSeq(s, epos + 1, Len(s)))

\* The value of an unsigned decimal literal: digits with an optional point
\* and an optional exponent part; NaN when s is none.
DecimalLiteral(s, sign) == LiteralParts(s, sign, FirstOf(s, {101, 69}))

\* The value of the digits following a prefix 0x, 0o or 0b.
PrefixedLiteral(s, base) ==
    IF ~IsDigits(SubSeq(s, 3, Len(s)), base) THEN NaN
    ELSE Exact(1, DigitsValue(SubSeq(s, 3, Len(s)), base), 0)

\* The base a literal names by its prefix, 0 when it has none.
PrefixBase(s) ==
    IF Len(s) < 2 \/ s[1] # 48 THEN 0
    ELSE IF s[2] \in {120, 88} THEN 16
    ELSE IF s[2] \in {111, 79} THEN 8
    ELSE IF s[2] \in {98, 66} THEN 2
    ELSE 0

\* The value of a literal with its sign taken off.
UnsignedLiteral(body, sign) ==
    IF body = <<73, 110, 102, 105, 110, 105, 116, 121>> THEN Inf(sign)  \* "Infinity"
    ELSE DecimalLiteral(body, sign)

\* The value of a literal without white space around it.
StrNumericLiteral(s) ==
    IF s = <<>> THEN Zero
    ELSE IF PrefixBase(s) # 0 THEN PrefixedLiteral(s, PrefixBase(s))
    ELSE UnsignedLiteral(IF s[1] \in {43, 45} THEN Tail(s) ELSE s,
                         IF s[1] = 45 THEN -1 ELSE 1)

\* Number(str) for a string given as its sequence of code units: white
\* space around it is dropped; the empty string is 0; the literal is
\* Infinity or a decimal literal, with an optional sign, or unsigned digits
\* after 0x, 0o or 0b; anything else is NaN.
StringToNumber(str) == StrNumericLiteral(TrimEnd(TrimStart(str)))

\* Number(b) for a bigint b, written m * 10^z.
BigIntToNumber(b) == Norm(b.m, 1, b.z)

\* Largest and smallest decimal exponents of a double: 10 ** 309 is
\* Infinity and 10 ** -324 is 0.
MaxExp10 == 308

MinExp10 == -323

\* The exponents at which 10 ** expo, as the engine computes it, is the
\* double next below, and next above, the one nearest to the power of ten.
TenPowBelow ==
    {-306, -222, -166, -138, -128, -122, -111, -101, -63, -32, -17, -5, -4,
     26, 36, 42, 70, 95, 96, 136, 142, 191, 218, 232, 242, 244, 260, 279,
     284, 290, 294}

TenPowAbove ==
    {-307, -303, -278, -268, -246, -207, -163, -148, -145, -106, -104, -88,
     -76, -57, -39, -29, -24, -23, -21, -20, 29, 34, 39, 49, 58, 61, 111,
     126, 165, 166, 169, 187, 210, 215, 225, 273, 274, 275}

\* The double d places after the positive finite x, for d in -1..1 and x
\* no power of two.
NextDouble(x, d) ==
    LET e == IMax(BLen(x.m) + x.e - SignificandBits, MinBitExp)
        m == BShl(x.m, x.e - e)
    IN  IF d = 0 THEN x
        ELSE IF d > 0 THEN Canonical(1, BAdd(m, <<1>>), e)
        ELSE Canonical(1, BSub(m, <<1>>), e)

\* 10 ** expo for an integer expo: an approximation of the power, within
\* one place of the nearest double.
TenPow(expo) ==
    IF expo > MaxExp10 THEN Inf(1)
    ELSE IF expo < MinExp10 THEN Zero
    ELSE NextDouble(Norm(1, 1, expo),
                    IF expo \in TenPowBelow THEN -1
                    ELSE IF expo \in TenPowAbove THEN 1 ELSE 0)

\* The on-chain answer divided as a 6-decimal amount.
OnChainScaleMicro == Norm(1, 1, 6)

\* The literal 1e8 of the on-chain normalisation.
OnChainScale == Norm(1, 1, 8)

(***************************************************************************)
(* Responses of the two sources.                                           *)
(*                                                                         *)
(* A Hermes response is a rejected fetch (kind "throw") or an HTTP         *)
(* response: ok is resp.ok, json says whether resp.json() yields a value   *)
(* (the body is JSON), bodyNull whether that value is null, hasParsed /    *)
(* parsed are data.parsed.  An entry of parsed is null or an object whose  *)
(* price object, price.price string and price.expo number may each be      *)
(* absent.  The price.price string is held in sig as the sequence of its   *)
(* UTF-16 code units.                                                      *)
(*                                                                         *)
(* An on-chain response is a rejected read (kind "throw") or the round     *)
(* (answer, updatedAt); answer is a bigint written m * 10^z.               *)
(***************************************************************************)
NoEntry ==
    [isNull |-> FALSE, hasPrice |-> FALSE, hasSig |-> FALSE, sig |-> <<>>,
     hasExpo |-> FALSE, expo |-> 0]

HermesThrow ==
    [kind |-> "throw", ok |-> FALSE, json |-> FALSE, bodyNull |-> FALSE,
     hasParsed |-> FALSE, parsed |-> <<>>, hasBinary |-> FALSE, binary |-> <<>>]

HermesNotOk == [HermesThrow EXCEPT !.kind = "http"]

HermesBadJson == [HermesNotOk EXCEPT !.ok = TRUE]

HermesNoParsed == [HermesBadJson EXCEPT !.json = TRUE]

\* The body null: resp.json() yields null.
HermesNullBody == [HermesNoParsed EXCEPT !.bodyNull = TRUE]

HermesParsed(entries) ==
    [HermesNoParsed EXCEPT !.hasParsed = TRUE, !.parsed = entries]

\* An entry {price: {price: sig, expo: expo}}.
PriceEntry(sig, expo) ==
    [NoEntry EXCEPT !.hasPrice = TRUE, !.hasSig = TRUE, !.sig = sig,
                    !.hasExpo = TRUE, !.expo = expo]

HermesPrice(sig, expo) == HermesParsed(<<PriceEntry(sig, expo)>>)

\* One hex string of binary.data: whether it starts with "0x", and the
\* digits after that.
Hex(has0x, body) == [has0x |-> has0x, body |-> body]

\* A payload with its binary part {binary: {data: data}}.
HermesSigned(resp, data) == [resp EXCEPT !.hasBinary = TRUE, !.binary = data]

\* Answers of getRequiredFee and of the wallet's writeContract.
FeeThrow == [kind |-> "throw", fee |-> 0]

FeeOk(fee) == [kind |-> "ok", fee |-> fee]

TxRejected == [kind |-> "throw", hash |-> 0]

TxHash(hash) == [kind |-> "ok", hash |-> hash]

ChainThrow == [kind |-> "throw", answer |-> [m |-> 0, z |-> 0], updatedAt |-> 0]

ChainRound(m, z, t) ==
    [kind |-> "ok", answer |-> [m |-> m, z |-> z], updatedAt |-> t]

(***************************************************************************)
(* loadData, iteration bodies.                                             *)
(***************************************************************************)
\* HermesTry without the "0" default: an absent price string is Number(undefined).
HermesTryNoDefault(resp) ==
    IF resp.kind = "throw" \/ ~resp.ok \/ ~resp.json \/ resp.bodyNull
    THEN [threw |-> TRUE, freshPrice |-> Zero]
    ELSE LET parsedArr == IF resp.hasParsed THEN resp.parsed ELSE <<>>
         IN  IF Len(parsedArr) > 0
             THEN LET p    == parsedArr[1]
                      expo == IF p.hasPrice /\ p.hasExpo THEN p.expo ELSE 0
                      num  == IF p.hasPrice /\ p.hasSig
                              THEN StringToNumber(p.sig) ELSE NaN
                  IN  IF p.isNull
                      THEN [threw |-> TRUE, freshPrice |-> Zero]
                      ELSE [threw |-> FALSE, freshPrice |-> Mul(num, TenPow(expo))]
             ELSE [threw |-> FALSE, freshPrice |-> Zero]

\* The try block of the Hermes loop: threw says whether control reaches the
\* catch, freshPrice is the value computed otherwise.
HermesTry(resp) ==
    IF resp.kind = "throw" \/ ~resp.ok \/ ~resp.json \/ resp.bodyNull
    THEN [threw |-> TRUE, freshPrice |-> Zero]
    ELSE LET parsedArr == IF resp.hasParsed THEN resp.parsed ELSE <<>>
         IN  IF Len(parsedArr) > 0
             THEN LET p           == parsedArr[1]
                      rawPriceStr == IF p.hasPrice /\ p.hasSig THEN p.sig ELSE <<48>>  \* "0"
                      expo        == IF p.hasPrice /\ p.hasExpo THEN p.expo ELSE 0
                  IN  IF p.isNull
                      THEN [threw |-> TRUE, freshPrice |-> Zero]
                      ELSE [threw |-> FALSE,
                            freshPrice |-> Mul(StringToNumber(rawPriceStr), TenPow(expo))]
             ELSE [threw |-> FALSE, freshPrice |-> Zero]

\* HermesFreshPrice without the catch branch: a request that threw leaves
\* no number behind.
HermesFreshPriceNoCatch(resp) ==
    LET t == HermesTry(resp)
    IN  IF t.threw THEN NaN ELSE t.freshPrice

\* The value one iteration of the Hermes loop stores in hermesMap.
HermesFreshPrice(resp) ==
    LET t == HermesTry(resp)
    IN  IF t.threw THEN Zero ELSE t.freshPrice

\* hermesMap[feed]?.freshPrice ?? 0
HermesLookup(hermesMap, feed) ==
    IF feed \in DOMAIN hermesMap THEN hermesMap[feed] ELSE Zero

\* ChainRow with the reference price looked up under the wrapper address.
ChainRowByAddress(o, result, hermesMap) ==
    IF result.kind = "ok"
    THEN [oracle |-> o,
          lastOnChainPrice |-> Div(BigIntToNumber(result.answer), OnChainScale),
          freshPrice |-> HermesLookup(hermesMap, o.wrapperAddress),
          lastUpdateTime |-> result.updatedAt,
          isUpdating |-> FALSE]
    ELSE [oracle |-> o, lastOnChainPrice |-> Zero, freshPrice |-> Zero,
          lastUpdateTime |-> 0, isUpdating |-> FALSE]

\* ChainRow whose catch branch normalises the answer it never received.
ChainRowNoSentinel(o, result, hermesMap) ==
    [oracle |-> o,
     lastOnChainPrice |->
         IF result.kind = "ok"
         THEN Div(BigIntToNumber(result.answer), OnChainScale) ELSE NaN,
     freshPrice |-> HermesLookup(hermesMap, o.pythFeedId),
     lastUpdateTime |-> result.updatedAt,
     isUpdating |-> FALSE]

\* The row one iteration of the on-chain loop pushes.
ChainRow(o, result, hermesMap) ==
    IF result.kind = "ok"
    THEN [oracle |-> o,
          lastOnChainPrice |-> Div(BigIntToNumber(result.answer), OnChainScale),
          freshPrice |-> HermesLookup(hermesMap, o.pythFeedId),
          lastUpdateTime |-> result.updatedAt,
          isUpdating |-> FALSE]
    ELSE [oracle |-> o,
          lastOnChainPrice |-> Zero,
          freshPrice |-> Zero,
          lastUpdateTime |-> 0,
          isUpdating |-> FALSE]

\* PushRow adding at the front (unshift).
PushRowFront(newRows, row) == <<row>> \o newRows

\* newRows.push(row)
PushRow(newRows, row) == Append(newRows, row)

(***************************************************************************)
(* Render of the table.                                                    *)
(***************************************************************************)
FreshMinutes == 15

AgingMinutes == 30

\* The literal 0.02 of colorDiff.
DiffThreshold == Ratio(2, 100)

\* colorTime with the second threshold inclusive.
colorTimeInclusive(minutes) ==
    IF Lt(minutes, FromInt(FreshMinutes)) THEN "green"
    ELSE IF ~Lt(FromInt(AgingMinutes), minutes) THEN "goldenrod"
    ELSE "red"

colorTime(minutes) ==
    IF Lt(minutes, FromInt(FreshMinutes)) THEN "green"
    ELSE IF Lt(minutes, FromInt(AgingMinutes)) THEN "goldenrod"
    ELSE "red"

\* colorDiff without Math.abs.
colorDiffOneSided(diff) == IF Lt(diff, DiffThreshold) THEN "green" ELSE "red"

colorDiff(diff) == IF Lt(Abs(diff), DiffThreshold) THEN "green" ELSE "red"

\* diffRatio without the guard against a zero on-chain price.
diffRatioUnguarded(r) ==
    Div(Sub(r.freshPrice, r.lastOnChainPrice), r.lastOnChainPrice)

\* diffRatio with the difference taken the other way round.
diffRatioReversed(r) ==
    IF StrictEq(r.lastOnChainPrice, Zero) THEN Zero
    ELSE Div(Sub(r.lastOnChainPrice, r.freshPrice), r.lastOnChainPrice)

diffRatio(r) ==
    IF StrictEq(r.lastOnChainPrice, Zero) THEN Zero
    ELSE Div(Sub(r.freshPrice, r.lastOnChainPrice), r.lastOnChainPrice)

\* minsSince clamped at zero.
minsSinceClamped(r, now) ==
    IF now < r.lastUpdateTime THEN Zero ELSE Ratio(now - r.lastUpdateTime, 60)

\* minsSince left in seconds.
minsSinceSeconds(r, now) == FromInt(now - r.lastUpdateTime)

\* minsSince that reads an update time of 0 as "no update seen".
minsSinceUnknownZero(r, now) ==
    IF r.lastUpdateTime = 0 THEN Zero ELSE Ratio(now - r.lastUpdateTime, 60)

minsSince(r, now) == Ratio(now - r.lastUpdateTime, 60)

\* The decimal digits of a, most significant first; none for zero.
\* DigitsAbove puts the digits of the quotient d.q before the remainder d.r
\* of a division by ten.
RECURSIVE DecimalDigits(_), DigitsAbove(_)
DecimalDigits(a) ==
    IF a = <<>> THEN <<>> ELSE DigitsAbove(BDivMod(a, <<10>>))

DigitsAbove(d) == Append(DecimalDigits(d.q), BToInt(d.r))

\* The digits lo..hi of ds as text.
RECURSIVE DigitsText(_, _, _)
DigitsText(ds, lo, hi) ==
    IF lo > hi THEN ""
    ELSE IF lo = hi THEN ToString(ds[lo])
    ELSE DigitsText(ds, lo, (lo + hi) \div 2)
             \o DigitsText(ds, (lo + hi) \div 2 + 1, hi)

\* Largest integer of the checker, at which the field scaled saturates.
MaxInt == 2147483647

\* From 1e21 on toFixed writes a number as ToString does.
FixedLimit == Norm(1, 1, 21)

\* |x| * 10^digits to the nearest integer, the larger one at a tie, for
\* a finite x and num = x.m * 10^digits.
FixedScaled(x, num) ==
    IF x.s = 0 THEN <<>>
    ELSE IF x.e >= 0 THEN BShl(num, x.e)
    ELSE BShr(BAdd(num, BShl(<<1>>, -x.e - 1)), -x.e)

\* The digits ds with zeros before them up to one digit before the point.
FixedPadded(ds, digits) == [i \in 1..(digits + 1 - Len(ds)) |-> 0] \o ds

\* The text of the digits pad, the last `digits` of them after the point.
FixedText(neg, pad, digits) ==
    (IF neg THEN "-" ELSE "")
        \o DigitsText(pad, 1, Len(pad) - digits)
        \o (IF digits = 0 THEN "" ELSE ".")
        \o DigitsText(pad, Len(pad) - digits + 1, Len(pad))

FixedOf(x, digits, n) ==
    [text   |-> FixedText(x.s < 0, FixedPadded(DecimalDigits(n), digits), digits),
     neg    |-> x.s < 0,
     scaled |-> IF BLen(n) < 32 THEN BToInt(n) ELSE MaxInt,
     digits |-> digits]

\* Number.prototype.toFixed(digits): the text, the sign, and the integer
\* nearest to |x| * 10^digits, the larger one at a tie, whose digits the
\* text shows with the point digits places from the end.  The text of a
\* number from 1e21 on, which is in exponent notation, is not expanded.
toFixed(x, digits) ==
    IF IsNaN(x) THEN [text |-> "NaN", neg |-> FALSE, scaled |-> 0, digits |-> digits]
    ELSE IF ~IsFinite(x)
    THEN [text |-> IF x.s < 0 THEN "-Infinity" ELSE "Infinity",
          neg |-> x.s < 0, scaled |-> 0, digits |-> digits]
    ELSE IF CmpAbs(x, FixedLimit) >= 0
    THEN [text |-> "exponent", neg |-> x.s < 0, scaled |-> MaxInt, digits |-> digits]
    ELSE FixedOf(x, digits, FixedScaled(x, BMul(x.m, BPowSmall(10, digits))))

\* The cells of one table row, from the two numbers the row derives.
RenderCells(r, diff, mins) ==
    [diffRatio |-> diff,
     minsSince |-> mins,
     minsText  |-> toFixed(mins, 1),
     colorDiff |-> colorDiff(diff),
     colorTime |-> colorTime(mins),
     disabled  |-> r.isUpdating]

\* One table row as rendered.
RenderRow(r, now) == RenderCells(r, diffRatio(r), minsSince(r, now))

\* What Home returns for the given state at clock reading now; the clock is
\* read (nowSec) only when the table is rendered.
RenderHome(rs, loading, now) ==
    IF loading THEN [screen |-> "loading", nowSec |-> 0, table |-> <<>>]
    ELSE IF Len(rs) = 0 THEN [screen |-> "empty", nowSec |-> 0, table |-> <<>>]
    ELSE [screen |-> "table", nowSec |-> now,
          table |-> [i \in 1..Len(rs) |-> RenderRow(rs[i], now)]]

(***************************************************************************)
(* Bounds and input sets.                                                  *)
(***************************************************************************)
\* Number of oracles of the longest configuration.
MaxOracles == 2

\* Number of loadData invocations in one behaviour.
MaxLoads == 1

\* Number of loadData and handleUpdate invocations, taken together, in one
\* behaviour with updates.
MaxInvocations == 3

\* The i-th entry of oracles.json.  Wrapper addresses and feed ids are
\* identifiers: no two entries share one.  Feed ids are numbered against
\* the list order so that a feed id is not the position of its oracle.
Oracle(i) ==
    [assetPair |-> i, wrapperAddress |-> i, pythFeedId |-> MaxOracles + 1 - i]

\* The configurations: the first n entries, for every n up to MaxOracles.
OracleLists == {[i \in 1..n |-> Oracle(i)] : n \in 0..MaxOracles}

FeedIds == 1..MaxOracles

Addresses == 1..MaxOracles

\* The code unit of the digit i.
DigitUnit(i) == 48 + i

DigitChar(i) ==
    CASE i = 0 -> "0" [] i = 1 -> "1" [] i = 2 -> "2" [] i = 3 -> "3"
      [] i = 4 -> "4" [] i = 5 -> "5" [] i = 6 -> "6" [] i = 7 -> "7"
      [] i = 8 -> "8" [] i = 9 -> "9"

\* Clock readings, in seconds.
ClockReadings == {2000, 2102}

\* Clock readings of the evaluation runs: one more before second 1800, at
\* which the minutes since the epoch fall half way between two tenths, and
\* seconds 2 and 3, the last at which they show as 0.0 and the first at
\* which they do not.
EvalClockReadings == ClockReadings \cup {1707, 2, 3}

\* Answers of the network when every feed has its own price and every
\* wrapper its own round: a request obtains it or fails, a Hermes request
\* by rejection for the odd feed ids and by a non-OK status for the even.
PlainNetwork ==
    [hermes |-> [f \in FeedIds |->
                    {IF f % 2 = 1 THEN HermesThrow ELSE HermesNotOk,
                     HermesPrice(<<DigitUnit(f), 53>>, -1)}],  \* "f5"
     chain  |-> [a \in Addresses |->
                    {ChainThrow, ChainRound(10 + a, 7, 2000 - 600 * a)}]]

\* Answers of the network in the behaviours with updates.  A Hermes request
\* obtains the feed's signed payload, of one hex string without and one with
\* the "0x" prefix, or, for the odd feed ids, a non-OK status or a payload
\* without binary part; a read of latestRoundData
\* obtains the wrapper's round; a read of getRequiredFee succeeds, or
\* rejects at the odd addresses; a writeContract call succeeds, or rejects
\* at the even addresses.
UpdateNetwork ==
    [hermes |-> [f \in FeedIds |->
                    {HermesSigned(HermesPrice(<<DigitUnit(f), 53>>, -1),  \* "f5"
                                  <<Hex(FALSE, f), Hex(TRUE, f + MaxOracles)>>)}
                    \cup (IF f % 2 = 1
                          THEN {HermesNotOk, HermesPrice(<<55>>, 0)}  \* "7"
                          ELSE {})],
     chain  |-> [a \in Addresses |-> {ChainRound(10 + a, 7, 1400)}],
     fee    |-> [a \in Addresses |->
                    {FeeOk(a)} \cup (IF a % 2 = 1 THEN {FeeThrow} ELSE {})],
     wallet |-> [a \in Addresses |->
                    {TxHash(a)} \cup (IF a % 2 = 0 THEN {TxRejected} ELSE {})]]

\* Payloads a Hermes request may obtain, in every shape loadData reads.
HermesPayloads ==
    {HermesThrow, HermesNotOk, HermesBadJson, HermesNullBody, HermesNoParsed,
     HermesParsed(<<>>),
     HermesParsed(<<NoEntry>>),
     HermesParsed(<<[NoEntry EXCEPT !.isNull = TRUE]>>),
     HermesParsed(<<[NoEntry EXCEPT !.hasPrice = TRUE]>>),
     HermesParsed(<<[PriceEntry(<<55>>, 0) EXCEPT !.hasExpo = FALSE]>>),  \* "7"
     HermesParsed(<<[PriceEntry(<<>>, -2) EXCEPT !.hasSig = FALSE]>>),
     HermesParsed(<<PriceEntry(<<57, 56>>, -2), PriceEntry(<<53>>, 0)>>),  \* "98", "5"
     HermesPrice(<<>>, 0),
     HermesPrice(<<97, 98, 99>>, -8),  \* "abc"
     HermesPrice(<<45>>, 0),  \* "-"
     HermesPrice(<<49, 97>>, 0),  \* "1a"
     HermesPrice(<<32>>, 0),  \* " "
     HermesPrice(<<160, 49, 48, 50, 8232>>, -2),  \* U+00A0 "102" U+2028
     HermesPrice(<<12288, 65279, 53, 8202, 10>>, 0),  \* U+3000 U+FEFF "5" U+200A LF
     HermesPrice(<<233, 53>>, 0),  \* U+00E9 "5"
     HermesPrice(<<8203, 53>>, 0),  \* U+200B "5"
     HermesPrice(<<48>>, 0),  \* "0"
     HermesPrice(<<49>>, 0),  \* "1"
     HermesPrice(<<49, 48, 50>>, -2),  \* "102"
     HermesPrice(<<49, 48, 49, 57, 57>>, -4),  \* "10199"
     HermesPrice(<<57, 56, 48, 49>>, -4),  \* "9801"
     HermesPrice(<<45, 49, 48, 50>>, -2),  \* "-102"
     HermesPrice(<<50, 53, 48, 49, 48, 48, 48, 48, 48, 48, 48>>, -7),  \* "25010000000"
     HermesPrice(<<53>>, 309),  \* "5"
     HermesPrice(<<48>>, 309),  \* "0"
     HermesPrice(<<53>>, -324)}  \* "5"

\* Rounds an on-chain read may obtain.
ChainRounds ==
    {ChainThrow,
     ChainRound(0, 0, 1100),
     ChainRound(1, 8, 2060), ChainRound(1, 8, 2000), ChainRound(1, 8, 1101),
     ChainRound(1, 8, 1100), ChainRound(1, 8, 1099), ChainRound(1, 8, 201),
     ChainRound(1, 8, 200), ChainRound(1, 8, 199), ChainRound(1, 8, 0),
     ChainRound(-1, 8, 1100),
     ChainRound(1, 8, 1109),
     ChainRound(25, 10, 1100),
     ChainRound(5, 9, 1100),
     ChainRound(3, 6, 1100),
     ChainRound(98, 6, 1100)}

\* Answers of the network for a single oracle: every payload against a
\* failing, a unit-price or a zero-price round, or every round against a failing request
\* and two prices.
EvalNetworks ==
    {[hermes |-> [f \in FeedIds |-> HermesPayloads],
      chain  |-> [a \in Addresses |->
                     {ChainThrow, ChainRound(1, 8, 1100), ChainRound(0, 0, 1100)}]],
     [hermes |-> [f \in FeedIds |->
                     {HermesThrow, HermesPrice(<<49, 48, 50>>, -2),  \* "102"
                      HermesPrice(<<52, 57>>, 0),  \* "49"
                      HermesPrice(<<53, 49>>, 0),  \* "51"
                      HermesPrice(<<51, 48, 54>>, -4),  \* "306"
                      \* "25010000000"
                      HermesPrice(<<50, 53, 48, 49, 48, 48, 48, 48, 48, 48, 48>>, -7)}],
      chain  |-> [a \in Addresses |-> ChainRounds]]}

(***************************************************************************)
(* State.                                                                  *)
(***************************************************************************)
VARIABLES
    typedOracles,   \* the configured oracles, fixed at start-up
    network,        \* the answers each feed and each wrapper may give
    nowSec,         \* the clock, in seconds
    agwClient,      \* whether useAbstractClient holds a wallet client
    rows,           \* Home state: the rows
    isLoading,      \* Home state: the loading flag
    loads,          \* the loadData invocations, in start order
    view,           \* what Home rendered last
    updates,        \* the handleUpdate invocations, in start order
    txs,            \* the writeContract calls made, in call order
    lastAlert       \* the text of the last alert shown

VARIABLES
    eoaAddress,     \* Trade: the signer address of the wallet hook, 0 when absent
    scAddress,      \* Trade state: the derived smart-account address
    derivations,    \* Trade: the deriveScAddress invocations, in start order
    stats,          \* Stats state: the loading flag and the seven statistics
    statsLoads,     \* Stats: the loadStats invocations, in start order
    expanded,       \* FAQ state: the expanded entry
    toggles         \* FAQ: the toggle calls made, in call order

\* The state of the pages other than Home.
pageVars == <<eoaAddress, scAddress, derivations, stats, statsLoads, expanded, toggles>>

\* The state of Home.
homeVars == <<typedOracles, network, nowSec, agwClient, rows, isLoading, loads, view,
              updates, txs, lastAlert>>

vars == <<typedOracles, network, nowSec, agwClient, rows, isLoading, loads, view,
          updates, txs, lastAlert,
          eoaAddress, scAddress, derivations, stats, statsLoads, expanded, toggles>>

\* What handleUpdate alone writes besides the rows.
updateVars == <<updates, txs, lastAlert>>

\* The first request a loadData over n oracles awaits.
FirstPcChainFirst(n) == IF n = 0 THEN "done" ELSE "chain"

FirstPc(n) == IF n = 0 THEN "done" ELSE "hermes"

\* NewLoad whose newRows array outlives the invocation: a loadData starts
\* with the rows the loadData before it pushed.
NewLoadSharedRows(n) ==
    [pc |-> FirstPc(n), i |-> 1, hermesMap |-> <<>>,
     newRows |-> IF Len(loads) = 0 THEN <<>> ELSE loads[Len(loads)].newRows,
     pending |-> <<>>, resps |-> <<>>, results |-> <<>>]

\* A loadData invocation up to its first await.  pending holds the response
\* whose body is being read; resps and results keep the answers its requests
\* obtained, in request order.
NewLoad(n) ==
    [pc |-> FirstPc(n), i |-> 1, hermesMap |-> <<>>, newRows |-> <<>>,
     pending |-> <<>>, resps |-> <<>>, results |-> <<>>]

(***************************************************************************)
(* The other pages, as constructed.                                        *)
(***************************************************************************)
\* The empty string of useState<string>("").
NoScAddress == <<>>

\* The smart-account address of signer a, as a string.
ScAddressOf(a) == <<"s", "c", DigitChar(a)>>

TradeIdle ==
    /\ eoaAddress = 0
    /\ scAddress = NoScAddress
    /\ derivations = <<>>

\* The statistics as useState(0) and useState(false) construct them.
StatsZero ==
    [loading |-> FALSE, circSupply |-> Zero, burned |-> Zero, firePriceEth |-> Zero,
     firePriceUsd |-> Zero, marketCap |-> Zero, burnedValue |-> Zero,
     ethUsdPrice |-> Zero]

StatsIdle ==
    /\ stats = StatsZero
    /\ statsLoads = <<>>

\* The value null of useState<number | null>(null).
NoneExpanded == <<>>

FaqIdle ==
    /\ expanded = NoneExpanded
    /\ toggles = <<>>

\* Home alone is mounted.
PagesIdle == TradeIdle /\ StatsIdle /\ FaqIdle

HomeInit ==
    /\ agwClient = FALSE
    /\ rows = <<>>
    /\ isLoading = FALSE
    /\ loads = <<>>
    /\ view = RenderHome(<<>>, FALSE, nowSec)
    /\ updates = <<>>
    /\ txs = <<>>
    /\ lastAlert = ""

Init ==
    /\ typedOracles \in OracleLists
    /\ network = PlainNetwork
    /\ nowSec \in ClockReadings
    /\ HomeInit
    /\ PagesIdle

\* One oracle whose requests may obtain any payload and any round.
InitEval ==
    /\ typedOracles = <<Oracle(1)>>
    /\ network \in EvalNetworks
    /\ nowSec \in EvalClockReadings
    /\ HomeInit
    /\ PagesIdle

\* Two oracles, answers of UpdateNetwork.
InitUpdate ==
    /\ typedOracles = <<Oracle(1), Oracle(2)>>
    /\ network = UpdateNetwork
    /\ nowSec = 2000
    /\ HomeInit
    /\ PagesIdle

(***************************************************************************)
(* handleUpdate, bodies.                                                   *)
(***************************************************************************)
\* SetUpdating without the comparison of addresses: every row gets the flag.
SetUpdatingAll(rs, row, flag) ==
    [i \in 1..Len(rs) |-> [rs[i] EXCEPT !.isUpdating = flag]]

\* SetUpdating that spreads the row handleUpdate was called with, not the
\* row in the state.
SetUpdatingFromCaptured(rs, row, flag) ==
    [i \in 1..Len(rs) |->
        IF rs[i].oracle.wrapperAddress = row.oracle.wrapperAddress
        THEN [row EXCEPT !.isUpdating = flag]
        ELSE rs[i]]

\* The updater handleUpdate passes to setRows, at its start (flag TRUE) and
\* in its finally block (flag FALSE): the rows with the address of the row
\* it was called with get the flag, the others stay as they are.
SetUpdating(rs, row, flag) ==
    [i \in 1..Len(rs) |->
        IF rs[i].oracle.wrapperAddress = row.oracle.wrapperAddress
        THEN [rs[i] EXCEPT !.isUpdating = flag]
        ELSE rs[i]]

\* A handleUpdate invocation up to its first await, for the row it was
\* called with.  resps, feeResults and txResults keep the answers its
\* requests obtained, feeArgs the array it passed to getRequiredFee.
NewUpdate(row) ==
    [pc |-> "fetch", row |-> row, pending |-> <<>>, resps |-> <<>>,
     updateData |-> <<>>, fee |-> 0,
     feeArgs |-> <<>>, feeResults |-> <<>>, txResults |-> <<>>]

\* Whether the try block throws between the answer of the Hermes request
\* and the array of update data: a rejected fetch, a non-OK status, a body
\* that is not JSON, is null or has no binary.data.
UpdateFetchThrows(resp) ==
    resp.kind = "throw" \/ ~resp.ok \/ ~resp.json \/ resp.bodyNull \/ ~resp.hasBinary

\* hex.startsWith("0x") ? hex : `0x${hex}`
WithPrefix(hex) == [hex EXCEPT !.has0x = TRUE]

\* UpdateData taken from the answer the last finished loadData got for the
\* row's feed.
UpdateDataCached(row, resp) ==
    LET done == {l \in 1..Len(loads) : loads[l].pc = "done"}
        last == CHOOSE l \in done : \A k \in done : k <= l
        i    == CHOOSE k \in 1..Len(typedOracles) :
                    typedOracles[k].pythFeedId = row.oracle.pythFeedId
        old  == loads[last].resps[i].binary
    IN  IF done = {} THEN <<>> ELSE [k \in 1..Len(old) |-> WithPrefix(old[k])]

\* updateDataHexArray of the invocation for row, from the answer resp of
\* its own Hermes request.
UpdateData(row, resp) ==
    [k \in 1..Len(resp.binary) |-> WithPrefix(resp.binary[k])]

\* UpdatePriceCall without the value.
UpdatePriceCallNoValue(u, row, updateData, fee) ==
    [update |-> u, address |-> row.oracle.wrapperAddress,
     functionName |-> "updatePrice", args |-> updateData, value |-> 0]

\* The writeContract call of an invocation.
UpdatePriceCall(u, row, updateData, fee) ==
    [update |-> u, address |-> row.oracle.wrapperAddress,
     functionName |-> "updatePrice", args |-> updateData, value |-> fee]

(***************************************************************************)
(* Actions.                                                                *)
(***************************************************************************)
\* useAbstractClient yields a new wallet client: the effect runs and calls
\* loadData, which runs up to its first await.  Without oracles no request
\* is awaited and loadData runs to its end.
\* The effect with its guard removed.
EffectCallsLoadAlways(client) == TRUE

\* Whether the effect on agwClient, run with the given client, goes past
\* its guard and calls loadData.
EffectCallsLoad(client) == client

EffectRun(cap) ==
    /\ Len(loads) < cap
    /\ agwClient' = TRUE
    /\ EffectCallsLoad(agwClient')
    /\ loads' = Append(loads, NewLoad(Len(typedOracles)))
    /\ isLoading' = (Len(typedOracles) # 0)
    /\ rows' = IF Len(typedOracles) = 0 THEN <<>> ELSE rows
    /\ view' = RenderHome(rows', isLoading', nowSec)
    /\ UNCHANGED <<pageVars, typedOracles, network, nowSec, updateVars>>

ClientChange == EffectRun(MaxLoads)

\* The wallet client goes away: the effect runs and returns at its guard.
ClientGone ==
    /\ agwClient
    /\ agwClient' = FALSE
    /\ IF EffectCallsLoad(agwClient')
       THEN /\ loads' = Append(loads, NewLoad(Len(typedOracles)))
            /\ isLoading' = (Len(typedOracles) # 0)
            /\ rows' = IF Len(typedOracles) = 0 THEN <<>> ELSE rows
       ELSE UNCHANGED <<rows, isLoading, loads>>
    /\ view' = RenderHome(rows', isLoading', nowSec)
    /\ UNCHANGED <<pageVars, typedOracles, network, nowSec, updateVars>>

\* Whether the try block throws on the response itself, before its body is
\* read: a rejected fetch, a non-OK status.
FetchThrows(resp) == resp.kind = "throw" \/ ~resp.ok

\* The iteration of invocation l for oracle i ends with the answer resp of
\* its request: it stores the feed's price and the next request is issued.
HermesStep(l, resp) ==
    LET ld == loads[l]
        o  == typedOracles[ld.i]
        m  == [f \in DOMAIN ld.hermesMap \cup {o.pythFeedId} |->
                 IF f = o.pythFeedId THEN HermesFreshPrice(resp)
                 ELSE ld.hermesMap[f]]
        last == ld.i = Len(typedOracles)
    IN  /\ loads' = [loads EXCEPT ![l] =
                       [ld EXCEPT !.hermesMap = m,
                                  !.pending = <<>>,
                                  !.resps = Append(ld.resps, resp),
                                  !.pc = IF last THEN "chain" ELSE "hermes",
                                  !.i = IF last THEN 1 ELSE ld.i + 1]]
        /\ UNCHANGED <<pageVars, typedOracles, network, nowSec, agwClient, rows, isLoading, view,
                       updateVars>>

\* The fetch of invocation l for oracle i is settled by resp: the
\* iteration ends in its catch block, or resp.json() is awaited.
HermesFetchStep(l, resp) ==
    IF FetchThrows(resp)
    THEN HermesStep(l, resp)
    ELSE /\ loads' = [loads EXCEPT ![l] =
                        [loads[l] EXCEPT !.pc = "hermes:json", !.pending = <<resp>>]]
         /\ UNCHANGED <<pageVars, typedOracles, network, nowSec, agwClient, rows,
                        isLoading, view, updateVars>>

HermesAnswer ==
    \E l \in 1..Len(loads) :
        /\ loads[l].pc = "hermes"
        /\ \E resp \in network.hermes[typedOracles[loads[l].i].pythFeedId] :
               HermesFetchStep(l, resp)

\* The body of the response invocation l awaits is read, or its reading is
\* rejected: the iteration ends.
HermesJsonAnswer ==
    \E l \in 1..Len(loads) :
        /\ loads[l].pc = "hermes:json"
        /\ HermesStep(l, loads[l].pending[1])

\* The latestRoundData read of invocation l for oracle i is answered by
\* result: the iteration pushes the row; after the last oracle the rows are
\* set and the loading flag is cleared.
ChainStep(l, result) ==
    LET ld == loads[l]
        o  == typedOracles[ld.i]
        nr == PushRow(ld.newRows, ChainRow(o, result, ld.hermesMap))
        last == ld.i = Len(typedOracles)
    IN  /\ loads' = [loads EXCEPT ![l] =
                       [ld EXCEPT !.newRows = nr,
                                  !.results = Append(ld.results, result),
                                  !.pc = IF last THEN "done" ELSE "chain",
                                  !.i = IF last THEN ld.i ELSE ld.i + 1]]
        /\ rows' = IF last THEN nr ELSE rows
        /\ isLoading' = IF last THEN FALSE ELSE isLoading
        /\ view' = IF last THEN RenderHome(rows', isLoading', nowSec) ELSE view
        /\ UNCHANGED <<pageVars, typedOracles, network, nowSec, agwClient, updateVars>>

ChainAnswer ==
    \E l \in 1..Len(loads) :
        /\ loads[l].pc = "chain"
        /\ \E result \in network.chain[typedOracles[loads[l].i].wrapperAddress] :
               ChainStep(l, result)

\* Time passes.
Tick ==
    /\ \E t \in ClockReadings : t > nowSec /\ nowSec' = t
    /\ UNCHANGED <<pageVars, typedOracles, network, agwClient, rows, isLoading, loads, view,
                   updateVars>>

\* Home renders again with its state unchanged (a parent or a hook updated).
Rerender ==
    /\ view' = RenderHome(rows, isLoading, nowSec)
    /\ UNCHANGED <<pageVars, typedOracles, network, nowSec, agwClient, rows, isLoading, loads,
                   updateVars>>

\* UpdateNoWallet without the return after the alert.
UpdateNoWalletProceeds ==
    /\ ~agwClient
    /\ Len(loads) + Len(updates) < MaxInvocations
    /\ \E i \in 1..Len(view.table) :
           /\ ~view.table[i].disabled
           /\ rows' = SetUpdating(rows, rows[i], TRUE)
           /\ updates' = Append(updates, NewUpdate(rows[i]))
    /\ view' = RenderHome(rows', isLoading, nowSec)
    /\ lastAlert' = "Connect with Abstract first."
    /\ UNCHANGED <<pageVars, typedOracles, network, nowSec, agwClient, isLoading, loads, txs>>

\* The user clicks the Update button of row i without a wallet client: the
\* alert, and nothing else.
UpdateNoWallet ==
    /\ ~agwClient
    /\ \E i \in 1..Len(view.table) : ~view.table[i].disabled
    /\ lastAlert' = "Connect with Abstract first."
    /\ UNCHANGED <<pageVars, typedOracles, network, nowSec, agwClient, rows, isLoading, loads,
                   view, updates, txs>>

\* The user clicks the enabled Update button of row i: handleUpdate(rows[i])
\* sets the flag and issues its Hermes request.
UpdateStart(i) ==
    /\ agwClient
    /\ Len(loads) + Len(updates) < MaxInvocations
    /\ ~view.table[i].disabled
    /\ rows' = SetUpdating(rows, rows[i], TRUE)
    /\ updates' = Append(updates, NewUpdate(rows[i]))
    /\ view' = RenderHome(rows', isLoading, nowSec)
    /\ UNCHANGED <<pageVars, typedOracles, network, nowSec, agwClient, isLoading, loads, txs,
                   lastAlert>>

UpdateClick == \E i \in 1..Len(view.table) : UpdateStart(i)

\* UpdateFinish that clears the flag at the end of the try block only.
UpdateFinishTryOnly(u, text) ==
    /\ lastAlert' = text
    /\ rows' = IF text = "Error" THEN rows ELSE SetUpdating(rows, updates[u].row, FALSE)
    /\ view' = RenderHome(rows', isLoading, nowSec)

\* Invocation u leaves its try block: the alert, then the finally block
\* clears the flag.
UpdateFinish(u, text) ==
    /\ lastAlert' = text
    /\ rows' = SetUpdating(rows, updates[u].row, FALSE)
    /\ view' = RenderHome(rows', isLoading, nowSec)

\* The Hermes request of invocation u ends with the answer resp: the update
\* data are built and getRequiredFee is read, or the try block throws.
UpdateFetchStep(u, resp) ==
    LET up == updates[u]
    IN  /\ IF UpdateFetchThrows(resp)
           THEN /\ updates' = [updates EXCEPT ![u] =
                                  [up EXCEPT !.pc = "done",
                                             !.pending = <<>>,
                                             !.resps = Append(up.resps, resp)]]
                /\ UpdateFinish(u, "Error")
           ELSE /\ updates' = [updates EXCEPT ![u] =
                                  [up EXCEPT !.pc = "fee",
                                             !.pending = <<>>,
                                             !.resps = Append(up.resps, resp),
                                             !.updateData = UpdateData(up.row, resp),
                                             !.feeArgs = UpdateData(up.row, resp)]]
                /\ UNCHANGED <<rows, view, lastAlert>>
        /\ UNCHANGED <<pageVars, typedOracles, network, nowSec, agwClient, isLoading, loads, txs>>

\* The fetch of invocation u is settled by resp: the try block throws, or
\* hermesResp.json() is awaited.
UpdateFetchSettled(u, resp) ==
    IF FetchThrows(resp)
    THEN UpdateFetchStep(u, resp)
    ELSE /\ updates' = [updates EXCEPT ![u] =
                          [updates[u] EXCEPT !.pc = "json", !.pending = <<resp>>]]
         /\ UNCHANGED <<pageVars, typedOracles, network, nowSec, agwClient, rows,
                        isLoading, loads, view, txs, lastAlert>>

UpdateFetchAnswer ==
    \E u \in 1..Len(updates) :
        /\ updates[u].pc = "fetch"
        /\ \E resp \in network.hermes[updates[u].row.oracle.pythFeedId] :
               UpdateFetchSettled(u, resp)

\* The body of the response invocation u awaits is read, or its reading is
\* rejected.
UpdateJsonAnswer ==
    \E u \in 1..Len(updates) :
        /\ updates[u].pc = "json"
        /\ UpdateFetchStep(u, updates[u].pending[1])

\* The getRequiredFee read of invocation u is answered by result: the
\* wallet is asked to send updatePrice with the update data and the fee, or
\* the try block throws.
UpdateFeeStep(u, result) ==
    LET up == updates[u]
    IN  /\ IF result.kind = "ok"
           THEN /\ updates' = [updates EXCEPT ![u] =
                                  [up EXCEPT !.pc = "tx", !.fee = result.fee,
                                             !.feeResults = Append(up.feeResults, result)]]
                /\ txs' = Append(txs, UpdatePriceCall(u, up.row, up.updateData,
                                                      result.fee))
                /\ UNCHANGED <<rows, view, lastAlert>>
           ELSE /\ updates' = [updates EXCEPT ![u] =
                                  [up EXCEPT !.pc = "done",
                                             !.feeResults = Append(up.feeResults, result)]]
                /\ UpdateFinish(u, "Error")
                /\ UNCHANGED txs
        /\ UNCHANGED <<pageVars, typedOracles, network, nowSec, agwClient, isLoading, loads>>

UpdateFeeAnswer ==
    \E u \in 1..Len(updates) :
        /\ updates[u].pc = "fee"
        /\ \E result \in network.fee[updates[u].row.oracle.wrapperAddress] :
               UpdateFeeStep(u, result)

\* The writeContract call of invocation u is answered by result: the hash
\* is shown, or the try block throws; the finally block clears the flag.
UpdateTxStep(u, result) ==
    /\ updates' = [updates EXCEPT ![u] =
                      [updates[u] EXCEPT !.pc = "done",
                                         !.txResults = Append(updates[u].txResults, result)]]
    /\ UpdateFinish(u, IF result.kind = "ok" THEN "TX sent" ELSE "Error")
    /\ UNCHANGED <<pageVars, typedOracles, network, nowSec, agwClient, isLoading, loads, txs>>

UpdateTxAnswer ==
    \E u \in 1..Len(updates) :
        /\ updates[u].pc = "tx"
        /\ \E result \in network.wallet[updates[u].row.oracle.wrapperAddress] :
               UpdateTxStep(u, result)

\* The effect runs in a behaviour with updates.
ClientChangeAgain == EffectRun(MaxInvocations - Len(updates))

Next ==
    \/ ClientChange
    \/ ClientGone
    \/ HermesAnswer
    \/ HermesJsonAnswer
    \/ ChainAnswer
    \/ Tick
    \/ Rerender

Spec == Init /\ [][Next]_vars

SpecEval == InitEval /\ [][Next]_vars

\* Home with its Update buttons in use, at one clock reading.
NextUpdate ==
    \/ ClientChangeAgain
    \/ ClientGone
    \/ HermesAnswer
    \/ HermesJsonAnswer
    \/ ChainAnswer
    \/ UpdateNoWallet
    \/ UpdateClick
    \/ UpdateFetchAnswer
    \/ UpdateJsonAnswer
    \/ UpdateFeeAnswer
    \/ UpdateTxAnswer

SpecUpdate == InitUpdate /\ [][NextUpdate]_vars

(***************************************************************************)
(* Trade page.                                                             *)
(***************************************************************************)
\* Signer addresses the wallet hook may report, besides none.
MaxEoas == 2

\* Number of deriveScAddress invocations in one behaviour.
MaxDerivations == 3

\* Home as constructed, never connected; only another page is in use.
HomeIdle ==
    /\ typedOracles = <<>>
    /\ network = PlainNetwork
    /\ nowSec = 2000
    /\ HomeInit

\* A deriveScAddress invocation for signer a, up to its await.
NewDerivation(a) == [eoa |-> a, pc |-> "pending"]

\* Answers of getSmartAccountAddressFromInitialSigner for signer a.
DeriveAnswers(a) ==
    {[kind |-> "throw", address |-> NoScAddress],
     [kind |-> "ok", address |-> ScAddressOf(a)]}

\* The deriveScAddress invocations of the mounting with signer a: the effect
\* runs once, and once more where React runs the effects of a mounting
\* twice (StrictMode, src/src/main.tsx).  Without a signer each run only
\* clears scAddress.
MountDerivations(a) ==
    IF a = 0 THEN {<<>>}
    ELSE {<<NewDerivation(a)>>, <<NewDerivation(a), NewDerivation(a)>>}

\* Trade mounts: the effect runs with the signer address the hook reports.
InitTrade ==
    /\ HomeIdle
    /\ StatsIdle
    /\ FaqIdle
    /\ eoaAddress \in 0..MaxEoas
    /\ scAddress = NoScAddress
    /\ derivations \in MountDerivations(eoaAddress)

\* The hook reports another signer address a, or none (0): the effect
\* clears scAddress, or starts a derivation for a.
EoaChange ==
    \E a \in 0..MaxEoas :
        /\ a # eoaAddress
        /\ eoaAddress' = a
        /\ IF a = 0
           THEN /\ scAddress' = NoScAddress
                /\ UNCHANGED derivations
           ELSE /\ Len(derivations) < MaxDerivations
                /\ derivations' = Append(derivations, NewDerivation(a))
                /\ UNCHANGED scAddress
        /\ UNCHANGED <<homeVars, stats, statsLoads, expanded, toggles>>

\* The derivation d is answered: the address is stored, or the error is
\* logged.
DeriveStep(d, result) ==
    /\ derivations' = [derivations EXCEPT ![d] =
                          [derivations[d] EXCEPT !.pc = result.kind]]
    /\ scAddress' = IF result.kind = "ok" THEN result.address ELSE scAddress
    /\ UNCHANGED <<homeVars, eoaAddress, stats, statsLoads, expanded, toggles>>

DeriveAnswer ==
    \E d \in 1..Len(derivations) :
        /\ derivations[d].pc = "pending"
        /\ \E result \in DeriveAnswers(derivations[d].eoa) : DeriveStep(d, result)

\* The widget asks for a wallet: handleConnectWallet shows its alert.
handleConnectWallet ==
    /\ lastAlert' = "Please connect via Abstract (header)."
    /\ UNCHANGED <<typedOracles, network, nowSec, agwClient, rows, isLoading,
                   loads, view, updates, txs, pageVars>>

NextTrade ==
    \/ EoaChange
    \/ DeriveAnswer
    \/ handleConnectWallet

SpecTrade == InitTrade /\ [][NextTrade]_vars

(***************************************************************************)
(* Stats page.                                                             *)
(***************************************************************************)
\* Number of loadStats invocations in one behaviour: the mount effect, run
\* again where React runs effects twice.
MaxStatsLoads == 2

\* The assetPair "ETH/USD", as the number of its entry of oracles.json.
EthUsdPair == 2

\* 1e18
TokenScale == Norm(1, 1, 18)

\* a - b for bigints written m * 10^z.
BigSub(a, b) ==
    LET z0 == IMin(a.z, b.z)
    IN  [m |-> a.m * IPow10(a.z - z0) - b.m * IPow10(b.z - z0), z |-> z0]

\* An address string: the account it names and the form it is written in.
Address(id, form) == [id |-> id, form |-> form]

\* viem's getAddress: the checksummed form of a valid address, an error for
\* a string that is no address.
GetAddress(a) ==
    IF a.form = "invalid"
    THEN [threw |-> TRUE, value |-> a]
    ELSE [threw |-> FALSE, value |-> [a EXCEPT !.form = "checksum"]]

FIRE_TOKEN_ADDRESS == GetAddress(Address("fire", "lower")).value

\* Answers of publicClient.readContract.
ReadThrow == [kind |-> "throw", value |-> <<>>]

ReadOk(value) == [kind |-> "ok", value |-> value]

TotalSupplyAnswers == {ReadThrow, ReadOk([m |-> 1000, z |-> 18])}

DevBalAnswers == {ReadThrow, ReadOk([m |-> 100, z |-> 18])}

BurnedBalAnswers == {ReadThrow, ReadOk([m |-> 50, z |-> 18])}

Token0Answers ==
    {ReadThrow, ReadOk(Address("fire", "lower")), ReadOk(Address("weth", "checksum")),
     ReadOk(Address("weth", "invalid"))}

Token1Answers == {ReadThrow, ReadOk(Address("weth", "lower"))}

\* getReserves: (reserve0, reserve1, blockTimestampLast).
ReservesAnswers ==
    {ReadThrow,
     ReadOk(<<[m |-> 4, z |-> 18], [m |-> 1, z |-> 18], 1700>>),
     ReadOk(<<[m |-> 0, z |-> 0], [m |-> 1, z |-> 18], 1700>>)}

\* Answers of the request for the ETH/USD price.
StatsFetchAnswers ==
    {HermesThrow, HermesNotOk, HermesBadJson, HermesNullBody, HermesNoParsed,
     HermesParsed(<<[NoEntry EXCEPT !.isNull = TRUE]>>),
     HermesPrice(<<50, 48, 48, 48>>, 0),  \* "2000"
     HermesPrice(<<8239, 50, 48, 48, 48, 13>>, 0),  \* U+202F "2000" CR
     HermesPrice(<<233, 53>>, 0)}  \* U+00E9 "5"

\* A loadStats invocation up to its first await, with its local variables.
NewStatsLoad ==
    [pc |-> "totalSupply", failedAt |-> "none", outcome |-> "running",
     totalSupply |-> [m |-> 0, z |-> 0], devBal |-> [m |-> 0, z |-> 0],
     burnedBal |-> [m |-> 0, z |-> 0], token0 |-> Address("none", "invalid"),
     reserves |-> <<>>, feed |-> 0, pending |-> <<>>, ethPriceUsd |-> Zero]

\* Number(totalSupply - devBal - burnedBal) / 1e18
Circ(r) ==
    Div(BigIntToNumber(BigSub(BigSub(r.totalSupply, r.devBal), r.burnedBal)), TokenScale)

\* Number(burnedBal) / 1e18
BurnedTokens(r) == Div(BigIntToNumber(r.burnedBal), TokenScale)

\* reserveEth / reserveFire, the reserves taken by the place of FIRE in the
\* pair.
FirePriceInEth(r) ==
    IF GetAddress(r.token0).value = FIRE_TOKEN_ADDRESS
    THEN Div(BigIntToNumber(r.reserves[2]), BigIntToNumber(r.reserves[1]))
    ELSE Div(BigIntToNumber(r.reserves[1]), BigIntToNumber(r.reserves[2]))

\* typedOracles.find((o) => o.assetPair === "ETH/USD"): the entry in a
\* sequence of one, or the empty sequence.
FindEthUsdFeed(oracles) ==
    LET found == {i \in 1..Len(oracles) : oracles[i].assetPair = EthUsdPair}
    IN  IF found = {} THEN <<>>
        ELSE <<oracles[CHOOSE i \in found : \A j \in found : i <= j]>>

\* The request for the ETH/USD price and what is read from its answer:
\* threw says whether control reaches the catch, ethPriceUsd is the value
\* computed otherwise.
StatsEthPrice(resp) ==
    IF resp.kind = "throw" THEN [threw |-> TRUE, at |-> "fetch", ethPriceUsd |-> Zero]
    ELSE IF ~resp.ok THEN [threw |-> FALSE, at |-> "none", ethPriceUsd |-> Zero]
    ELSE IF ~resp.json THEN [threw |-> TRUE, at |-> "json", ethPriceUsd |-> Zero]
    ELSE IF resp.bodyNull THEN [threw |-> TRUE, at |-> "parsed", ethPriceUsd |-> Zero]
    ELSE LET present == resp.hasParsed /\ Len(resp.parsed) > 0 /\ ~resp.parsed[1].isNull
         IN  IF present
             THEN LET p           == resp.parsed[1]
                      rawPriceStr == IF p.hasPrice /\ p.hasSig THEN p.sig ELSE <<48>>  \* "0"
                      expo        == IF p.hasPrice /\ p.hasExpo THEN p.expo ELSE 0
                  IN  [threw |-> FALSE, at |-> "none",
                       ethPriceUsd |-> Mul(StringToNumber(rawPriceStr), TenPow(expo))]
             ELSE [threw |-> FALSE, at |-> "none", ethPriceUsd |-> Zero]

\* setCircSupply(circ); setBurned(Number(burnedBal) / 1e18)
StatsSetSupply(st, r) ==
    [st EXCEPT !.circSupply = Circ(r), !.burned = BurnedTokens(r)]

\* setFirePriceEth(firePriceInEth)
StatsSetFirePrice(st, r) == [st EXCEPT !.firePriceEth = FirePriceInEth(r)]

\* setEthUsdPrice and the three values in USD.
StatsSetUsd(st, r, ethPriceUsd) ==
    LET fireUsd == Mul(FirePriceInEth(r), ethPriceUsd)
    IN  [st EXCEPT !.ethUsdPrice = ethPriceUsd,
                   !.firePriceUsd = fireUsd,
                   !.marketCap = Mul(Circ(r), fireUsd),
                   !.burnedValue = Mul(BurnedTokens(r), fireUsd)]

\* The finally block left out.
StatsFinallyKeepsLoading(st) == st

\* finally: setLoading(false)
StatsFinally(st) == [st EXCEPT !.loading = FALSE]

\* How an invocation ends: the catch block logs whatever the try block
\* threw.
StatsOutcome(threw) == IF threw THEN "caught" ELSE "ok"

\* Stats mounts: only the typedOracles of the build matter to it.
InitStats ==
    /\ typedOracles \in OracleLists
    /\ network = PlainNetwork
    /\ nowSec = 2000
    /\ HomeInit
    /\ TradeIdle
    /\ StatsIdle
    /\ FaqIdle

\* The mount effect: loadStats runs up to its first await.  The effect has
\* no dependencies, so it runs again only in the mounting itself, before any
\* read is answered.
StatsEffect ==
    /\ Len(statsLoads) < MaxStatsLoads
    /\ \A l \in 1..Len(statsLoads) : statsLoads[l].pc = "totalSupply"
    /\ stats' = [stats EXCEPT !.loading = TRUE]
    /\ statsLoads' = Append(statsLoads, NewStatsLoad)
    /\ UNCHANGED <<homeVars, eoaAddress, scAddress, derivations, expanded, toggles>>

\* The try block of invocation l throws at the step named: catch, finally.
StatsFail(l, at) ==
    /\ statsLoads' = [statsLoads EXCEPT ![l] =
                         [statsLoads[l] EXCEPT !.pc = "done", !.failedAt = at,
                                               !.pending = <<>>,
                                               !.outcome = StatsOutcome(TRUE)]]
    /\ stats' = StatsFinally(stats)

\* The try block of invocation l runs to its end with the ETH/USD price
\* given, from the statistics st: the last four statistics are set, finally.
StatsComplete(l, r, st, ethPriceUsd) ==
    /\ statsLoads' = [statsLoads EXCEPT ![l] =
                         [r EXCEPT !.pc = "done", !.ethPriceUsd = ethPriceUsd,
                                   !.outcome = StatsOutcome(FALSE)]]
    /\ stats' = StatsFinally(StatsSetUsd(st, r, ethPriceUsd))

\* One awaited read of invocation l is answered; next is the record of the
\* invocation at its next await.
StatsReadStep(l, result, next) ==
    /\ IF result.kind = "throw"
       THEN StatsFail(l, statsLoads[l].pc)
       ELSE /\ statsLoads' = [statsLoads EXCEPT ![l] = next]
            /\ stats' = stats
    /\ UNCHANGED <<homeVars, eoaAddress, scAddress, derivations, expanded, toggles>>

TotalSupplyAnswer ==
    \E l \in 1..Len(statsLoads) : \E result \in TotalSupplyAnswers :
        /\ statsLoads[l].pc = "totalSupply"
        /\ StatsReadStep(l, result,
               [statsLoads[l] EXCEPT !.pc = "devBal", !.totalSupply = result.value])

DevBalAnswer ==
    \E l \in 1..Len(statsLoads) : \E result \in DevBalAnswers :
        /\ statsLoads[l].pc = "devBal"
        /\ StatsReadStep(l, result,
               [statsLoads[l] EXCEPT !.pc = "burnedBal", !.devBal = result.value])

\* The third read is answered: the two supply statistics are set.
BurnedBalAnswer ==
    \E l \in 1..Len(statsLoads) : \E result \in BurnedBalAnswers :
        /\ statsLoads[l].pc = "burnedBal"
        /\ IF result.kind = "throw"
           THEN StatsFail(l, "burnedBal")
           ELSE LET r == [statsLoads[l] EXCEPT !.pc = "token0",
                                               !.burnedBal = result.value]
                IN  /\ statsLoads' = [statsLoads EXCEPT ![l] = r]
                    /\ stats' = StatsSetSupply(stats, r)
        /\ UNCHANGED <<homeVars, eoaAddress, scAddress, derivations, expanded, toggles>>

Token0Answer ==
    \E l \in 1..Len(statsLoads) : \E result \in Token0Answers :
        /\ statsLoads[l].pc = "token0"
        /\ StatsReadStep(l, result,
               [statsLoads[l] EXCEPT !.pc = "token1", !.token0 = result.value])

Token1Answer ==
    \E l \in 1..Len(statsLoads) : \E result \in Token1Answers :
        /\ statsLoads[l].pc = "token1"
        /\ StatsReadStep(l, result, [statsLoads[l] EXCEPT !.pc = "reserves"])

\* getReserves is answered: the FIRE price in ETH is set, and the ETH/USD
\* price is requested when typedOracles has the feed; without the feed the
\* invocation runs to its end with the price 0.
ReservesAnswer ==
    \E l \in 1..Len(statsLoads) : \E result \in ReservesAnswers :
        /\ statsLoads[l].pc = "reserves"
        /\ IF result.kind = "throw"
           THEN StatsFail(l, "reserves")
           ELSE IF GetAddress(statsLoads[l].token0).threw
           THEN StatsFail(l, "getAddress")
           ELSE LET r == [statsLoads[l] EXCEPT !.reserves = result.value]
                    foundEthUsdFeed == FindEthUsdFeed(typedOracles)
                IN  IF foundEthUsdFeed = <<>>
                    THEN StatsComplete(l, r, StatsSetFirePrice(stats, r), Zero)
                    ELSE /\ statsLoads' =
                              [statsLoads EXCEPT ![l] =
                                  [r EXCEPT !.pc = "fetch",
                                            !.feed = foundEthUsdFeed[1].pythFeedId]]
                         /\ stats' = StatsSetFirePrice(stats, r)
        /\ UNCHANGED <<homeVars, eoaAddress, scAddress, derivations, expanded, toggles>>

\* The request for the ETH/USD price of invocation l ends with the answer
\* resp.
StatsFetchStep(l, resp) ==
    LET t == StatsEthPrice(resp)
        r == [statsLoads[l] EXCEPT !.pending = <<>>]
    IN  IF t.threw
        THEN StatsFail(l, t.at)
        ELSE StatsComplete(l, r, stats, t.ethPriceUsd)

\* The fetch of the ETH/USD price is settled: it rejects, its status is not
\* OK, or hermesResp.json() is awaited.
StatsFetchAnswer ==
    \E l \in 1..Len(statsLoads) : \E resp \in StatsFetchAnswers :
        /\ statsLoads[l].pc = "fetch"
        /\ IF resp.kind = "throw" \/ ~resp.ok
           THEN StatsFetchStep(l, resp)
           ELSE /\ statsLoads' = [statsLoads EXCEPT ![l] =
                                     [statsLoads[l] EXCEPT !.pc = "json",
                                                           !.pending = <<resp>>]]
                /\ stats' = stats
        /\ UNCHANGED <<homeVars, eoaAddress, scAddress, derivations, expanded, toggles>>

\* The body of the response is read, or its reading is rejected.
StatsJsonAnswer ==
    \E l \in 1..Len(statsLoads) :
        /\ statsLoads[l].pc = "json"
        /\ StatsFetchStep(l, statsLoads[l].pending[1])
        /\ UNCHANGED <<homeVars, eoaAddress, scAddress, derivations, expanded, toggles>>

NextStats ==
    \/ StatsEffect
    \/ TotalSupplyAnswer
    \/ DevBalAnswer
    \/ BurnedBalAnswer
    \/ Token0Answer
    \/ Token1Answer
    \/ ReservesAnswer
    \/ StatsFetchAnswer
    \/ StatsJsonAnswer

SpecStats == InitStats /\ [][NextStats]_vars

(***************************************************************************)
(* FAQ page.                                                               *)
(***************************************************************************)
\* Number of entries of the faqs array.
NumFaqs == 21

\* Number of toggle calls in one behaviour.
MaxToggles == 3

\* The indices faqs.map hands to toggle.
FaqIndices == 0..(NumFaqs - 1)

\* toggle(i) with every entry expanded by it.
ToggleValueAlwaysExpands(current, i) == <<i>>

\* expanded === i ? null : i
ToggleValue(current, i) == IF current = <<i>> THEN NoneExpanded ELSE <<i>>

\* expanded === i && (answer), for every entry: the entries whose answer
\* is rendered.
ShownAnswers(current) == {i \in FaqIndices : current = <<i>>}

InitFAQ ==
    /\ HomeIdle
    /\ TradeIdle
    /\ StatsIdle
    /\ FaqIdle

\* A click on the question of entry i.
toggle(i) ==
    /\ Len(toggles) < MaxToggles
    /\ expanded' = ToggleValue(expanded, i)
    /\ toggles' = Append(toggles, [i |-> i, before |-> expanded, after |-> expanded'])
    /\ UNCHANGED <<homeVars, eoaAddress, scAddress, derivations, stats, statsLoads>>

Toggle == \E i \in FaqIndices : toggle(i)

NextFAQ == Toggle

SpecFAQ == InitFAQ /\ [][NextFAQ]_vars
(***************************************************************************)
(* Properties of loadData.                                                 *)
(***************************************************************************)
LoadIds == 1..Len(loads)

OracleIds == 1..Len(typedOracles)

\* The Hermes request failed: the fetch rejected or returned a non-OK status.
HermesFailed(resp) == resp.kind = "throw" \/ ~resp.ok

\* The on-chain observation of a round: answer / 10^8 and updatedAt.
ObservedPrice(result) == Norm(result.answer.m, 1, result.answer.z - 8)

CarriesRound(row, result) ==
    /\ row.lastOnChainPrice = ObservedPrice(result)
    /\ row.lastUpdateTime = result.updatedAt

\* Two lists of rows agree on everything but the update-in-flight flags.
SameData(rs1, rs2) ==
    /\ Len(rs1) = Len(rs2)
    /\ \A i \in 1..Len(rs1) :
           [rs1[i] EXCEPT !.isUpdating = FALSE] = [rs2[i] EXCEPT !.isUpdating = FALSE]

\* Once a loadData has finished, the rows are those some finished loadData set.
RowsAreLoaded ==
    (\E l \in LoadIds : loads[l].pc = "done")
        => \E l \in LoadIds : loads[l].pc = "done" /\ SameData(rows, loads[l].newRows)

\* C1: a finished loadData has set exactly one row per configured oracle;
\* the row of an oracle whose Hermes request failed has freshPrice 0, and the
\* row of an oracle whose two requests succeeded carries the reference price
\* and the on-chain price and timestamp that they returned.
C1_PartialFailureIsolation ==
    /\ RowsAreLoaded
    /\ \A l \in LoadIds :
           loads[l].pc = "done" =>
               /\ Len(loads[l].newRows) = Len(typedOracles)
               /\ \A i \in OracleIds :
                      LET row == loads[l].newRows[i]
                          resp == loads[l].resps[i]
                          result == loads[l].results[i]
                      IN  /\ row.oracle = typedOracles[i]
                          /\ HermesFailed(resp) => row.freshPrice = Zero
                          /\ (~HermesFailed(resp) /\ result.kind = "ok") =>
                                 /\ row.freshPrice = HermesFreshPrice(resp)
                                 /\ CarriesRound(row, result)

\* A finished loadData in which one oracle's Hermes request failed, another
\* oracle's succeeded with a non-zero price, and both on-chain reads succeeded.
C1_Witness ==
    \E l \in LoadIds :
        /\ loads[l].pc = "done"
        /\ rows = loads[l].newRows
        /\ \E i, j \in OracleIds :
               /\ HermesFailed(loads[l].resps[i])
               /\ ~HermesFailed(loads[l].resps[j])
               /\ loads[l].results[i].kind = "ok"
               /\ loads[l].results[j].kind = "ok"
               /\ rows[j].freshPrice # Zero

\* C2: the rows a finished loadData sets, and the rows displayed from then
\* on, are one per configured oracle in the order of the configured list:
\* row i describes oracle i, whichever requests failed.
C2_OrderPreserved ==
    /\ \A l \in LoadIds :
           loads[l].pc = "done" =>
               /\ Len(loads[l].newRows) = Len(typedOracles)
               /\ \A i \in OracleIds : loads[l].newRows[i].oracle = typedOracles[i]
    /\ (\E l \in LoadIds : loads[l].pc = "done") =>
           /\ Len(rows) = Len(typedOracles)
           /\ \A i \in OracleIds : rows[i].oracle = typedOracles[i]

\* Rows of at least two oracles are displayed after a loadData in which a
\* request of the first oracle failed and the requests of a later one succeeded.
C2_Witness ==
    \E l \in LoadIds :
        /\ loads[l].pc = "done"
        /\ Len(rows) >= 2
        /\ rows[1].oracle = typedOracles[1]
        /\ rows[2].oracle # rows[1].oracle
        /\ loads[l].results[1].kind = "throw"
        /\ ~HermesFailed(loads[l].resps[2])
        /\ loads[l].results[2].kind = "ok"

\* C3: in every loadData, every on-chain read answered so far has pushed one
\* row; a read that failed pushed lastOnChainPrice 0 and lastUpdateTime 0, the
\* loop went on to the next oracle, and the row of every read that succeeded
\* carries its own round and the price stored for its own feed.
C3_ChainFailureSentinel ==
    \A l \in LoadIds :
        LET ld == loads[l]
        IN  /\ Len(ld.newRows) = Len(ld.results)
            /\ ld.pc = "chain" => Len(ld.results) = ld.i - 1
            /\ ld.pc = "done" => Len(ld.results) = Len(typedOracles)
            /\ \A i \in 1..Len(ld.results) :
                   /\ ld.results[i].kind = "throw" =>
                          /\ ld.newRows[i].lastOnChainPrice = Zero
                          /\ ld.newRows[i].lastUpdateTime = 0
                   /\ ld.results[i].kind = "ok" =>
                          /\ CarriesRound(ld.newRows[i], ld.results[i])
                          /\ ld.newRows[i].freshPrice = HermesFreshPrice(ld.resps[i])

\* A finished loadData whose first on-chain read failed, after a successful
\* Hermes request, and whose later read succeeded and is displayed.
C3_Witness ==
    \E l \in LoadIds :
        /\ loads[l].pc = "done"
        /\ rows = loads[l].newRows
        /\ ~isLoading
        /\ \E i, j \in OracleIds :
               /\ i < j
               /\ ~HermesFailed(loads[l].resps[i])
               /\ loads[l].results[i].kind = "throw"
               /\ loads[l].results[j].kind = "ok"
               /\ rows[j].lastOnChainPrice # Zero
               /\ rows[j].lastUpdateTime # 0

\* C4: in the rows of a finished loadData, freshPrice is the normalised
\* reference observation whenever the Hermes request succeeded, whatever the
\* on-chain read did, and the on-chain price and timestamp are the on-chain
\* observation whenever the read succeeded, whatever the Hermes request did.
C4_SentinelPerObservation ==
    \A l \in LoadIds :
        loads[l].pc = "done" =>
            \A i \in OracleIds :
                /\ ~HermesFailed(loads[l].resps[i]) =>
                       loads[l].newRows[i].freshPrice = HermesFreshPrice(loads[l].resps[i])
                /\ loads[l].results[i].kind = "ok" =>
                       CarriesRound(loads[l].newRows[i], loads[l].results[i])
\* C5: in the rows of a finished loadData, lastOnChainPrice and freshPrice are
\* finite numbers; a payload with an absent or malformed price string gives
\* freshPrice 0.
C5_PricesFinite ==
    \A l \in LoadIds :
        loads[l].pc = "done" =>
            \A i \in OracleIds :
                /\ IsFinite(loads[l].newRows[i].lastOnChainPrice)
                /\ IsFinite(loads[l].newRows[i].freshPrice)

\* The response is non-OK, or is OK with parsed missing or empty, or with a
\* first entry that has no price object.
NoUsableEntry(resp) ==
    /\ resp.kind = "http"
    /\ \/ ~resp.ok
       \/ /\ resp.json
          /\ \/ ~resp.hasParsed
             \/ Len(resp.parsed) = 0
             \/ ~resp.parsed[1].isNull /\ ~resp.parsed[1].hasPrice

\* C6: whenever a Hermes request obtained a response without a usable entry,
\* the price loadData stored for the feed is exactly 0, and so is the
\* freshPrice of the oracle's row.
C6_NoEntryYieldsZero ==
    \A l \in LoadIds :
        \A i \in 1..Len(loads[l].resps) :
            NoUsableEntry(loads[l].resps[i]) =>
                /\ typedOracles[i].pythFeedId \in DOMAIN loads[l].hermesMap
                /\ loads[l].hermesMap[typedOracles[i].pythFeedId] = Zero
                /\ i <= Len(loads[l].newRows) => loads[l].newRows[i].freshPrice = Zero

\* A displayed row with a live on-chain price whose Hermes response was OK
\* with an entry that has no price object.
C6_Witness ==
    \E l \in LoadIds :
        /\ loads[l].pc = "done"
        /\ rows = loads[l].newRows
        /\ \E i \in OracleIds :
               /\ loads[l].resps[i].ok
               /\ Len(loads[l].resps[i].parsed) > 0
               /\ ~loads[l].resps[i].parsed[1].isNull
               /\ ~loads[l].resps[i].parsed[1].hasPrice
               /\ rows[i].lastOnChainPrice # Zero
               /\ rows[i].freshPrice = Zero

(***************************************************************************)
(* Properties of the rendered table.                                       *)
(***************************************************************************)
\* The table Home rendered last shows the current rows.
TableShown == view.screen = "table" /\ Len(view.table) = Len(rows)

\* C7: every rendered row whose lastOnChainPrice is 0 has divergence ratio
\* exactly 0, whatever its freshPrice, and is coloured green.
C7_NoBaselineRatioZero ==
    view.screen = "table" =>
        /\ Len(view.table) = Len(rows)
        /\ \A i \in 1..Len(rows) :
               rows[i].lastOnChainPrice = Zero =>
                   /\ view.table[i].diffRatio = Zero
                   /\ view.table[i].colorDiff = "green"

\* A rendered row with on-chain price 0 and a reference price that is not 0.
C7_Witness ==
    /\ TableShown
    /\ \E i \in 1..Len(rows) :
           /\ rows[i].lastOnChainPrice = Zero
           /\ rows[i].freshPrice # Zero
           /\ view.table[i].diffRatio = Zero

\* C8: every rendered row whose lastOnChainPrice is not 0 has the ratio
\* (freshPrice - lastOnChainPrice) / lastOnChainPrice, the difference and
\* the quotient each rounded to a double: NaN for a reference price that is
\* NaN, the infinity of the sign of the quotient for one that is infinite;
\* for a positive on-chain price the ratio is positive exactly when
\* freshPrice is higher and negative exactly when it is lower.
C8_RatioFormulaAndSign ==
    view.screen = "table" =>
        /\ Len(view.table) = Len(rows)
        /\ \A i \in 1..Len(rows) :
               LET chain == rows[i].lastOnChainPrice
                   fresh == rows[i].freshPrice
                   ratio == view.table[i].diffRatio
               IN  chain # Zero =>
                       /\ ratio = Div(Sub(fresh, chain), chain)
                       /\ IsNaN(fresh) => IsNaN(ratio)
                       /\ fresh.k = "inf" => ratio = Inf(Sign(fresh) * Sign(chain))
                       /\ Lt(Zero, chain) =>
                              /\ Lt(Zero, ratio) <=> Lt(chain, fresh)
                              /\ Lt(ratio, Zero) <=> Lt(fresh, chain)

\* A rendered row with on-chain price 2500 and reference price 2501: the
\* ratio is 0.0004.
C8_Witness ==
    /\ TableShown
    /\ \E i \in 1..Len(rows) :
           /\ rows[i].lastOnChainPrice = FromInt(2500)
           /\ rows[i].freshPrice = FromInt(2501)
           /\ view.table[i].diffRatio = Ratio(4, 10000)

Urgency(colour) ==
    CASE colour = "green" -> 0 [] colour = "goldenrod" -> 1 [] colour = "red" -> 2

\* Every rendered row is classified by the thresholds: under 15 minutes
\* green, from 15 and under 30 goldenrod, from 30 red; an update exactly
\* 1800 seconds before the clock reading is 30 minutes old and red.
StalenessByThreshold ==
    view.screen = "table" =>
        /\ Len(view.table) = Len(rows)
        /\ \A i \in 1..Len(rows) :
               LET m == view.table[i].minsSince
                   c == view.table[i].colorTime
               IN  /\ Lt(m, FromInt(15)) => c = "green"
                   /\ (~Lt(m, FromInt(15)) /\ Lt(m, FromInt(30))) => c = "goldenrod"
                   /\ ~Lt(m, FromInt(30)) => c = "red"
                   /\ view.nowSec - rows[i].lastUpdateTime = 1800 =>
                          m = FromInt(30) /\ c = "red"

\* From one render to the next, a row whose minutes since update did not
\* decrease is not classified as less urgent.
StalenessMonotonic ==
    (/\ view.screen = "table"
     /\ view'.screen = "table"
     /\ Len(view'.table) = Len(view.table))
        => \A i \in 1..Len(view.table) :
               ~Lt(view'.table[i].minsSince, view.table[i].minsSince) =>
                   Urgency(view.table[i].colorTime) <= Urgency(view'.table[i].colorTime)

\* C9: the staleness class is threshold-exact (minutes < 15 green,
\* 15 <= minutes < 30 goldenrod, minutes >= 30 red), it never becomes less
\* urgent when the minutes grow, and an update 1800 seconds old is red.
C9_StalenessThresholds == []StalenessByThreshold /\ [][StalenessMonotonic]_vars

\* A rendered row whose update is exactly 1800 seconds old.
C9_Witness ==
    /\ TableShown
    /\ \E i \in 1..Len(rows) :
           /\ view.nowSec - rows[i].lastUpdateTime = 1800
           /\ view.table[i].colorTime = "red"

\* C10: a rendered ratio x is green exactly when -0.02 < x < 0.02 and red
\* otherwise, so 0.02 and -0.02 are red, and -x is classified as x is.
C10_DivergenceSymmetric ==
    view.screen = "table" =>
        \A i \in 1..Len(view.table) :
            LET x == view.table[i].diffRatio
                c == view.table[i].colorDiff
            IN  /\ c \in {"green", "red"}
                /\ c = "green" <=> (Lt(Ratio(-2, 100), x) /\ Lt(x, Ratio(2, 100)))
                /\ colorDiff(Neg(x)) = c

\* A rendered row whose ratio is exactly -0.02: 49 against 50.
C10_Witness ==
    /\ TableShown
    /\ \E i \in 1..Len(rows) :
           /\ view.table[i].diffRatio = Ratio(-2, 100)
           /\ view.table[i].colorDiff = "red"

(***************************************************************************)
(* Properties of the rendered time since update and of the sentinel row.   *)
(***************************************************************************)
\* C11: the rendered minutes are (nowSec - lastUpdateTime) / 60 with no
\* clamping: not negative when the update time is not after the clock
\* reading, and negative and coloured green when it is.
C11_MinutesSinceUpdate ==
    view.screen = "table" =>
        /\ Len(view.table) = Len(rows)
        /\ \A i \in 1..Len(rows) :
               LET m == view.table[i].minsSince
                   age == view.nowSec - rows[i].lastUpdateTime
               IN  /\ m = Div(FromInt(age), FromInt(60))
                   /\ age >= 0 => ~Lt(m, Zero)
                   /\ age < 0 => Lt(m, Zero) /\ view.table[i].colorTime = "green"

\* A rendered row whose update time is 60 seconds after the clock reading:
\* minus one minute, green.
C11_Witness ==
    /\ TableShown
    /\ \E i \in 1..Len(rows) :
           /\ rows[i].lastUpdateTime = view.nowSec + 60
           /\ view.table[i].minsSince = FromInt(-1)
           /\ view.table[i].colorTime = "green"

\* Row i on display is the row a finished loadData pushed for an on-chain
\* read that failed.
FailedReadShown(i) ==
    /\ TableShown
    /\ i \in 1..Len(rows)
    /\ \E l \in LoadIds :
           /\ loads[l].pc = "done"
           /\ SameData(rows, loads[l].newRows)
           /\ loads[l].results[i].kind = "throw"

\* C12: the row of an on-chain read that failed is displayed with a time
\* since update of 0.0 minutes.
C12_SentinelShowsZeroMinutes ==
    \A i \in OracleIds :
        FailedReadShown(i) => view.table[i].minsText = toFixed(Zero, 1)

\* C12, amended: the row of an on-chain read that failed is displayed with
\* the minutes from the epoch to the clock reading, nowSec / 60 to one
\* decimal (the tenths nearest to nowSec / 6, either one where that falls
\* half way), which is not 0.0 from second 3 on.
C12_SentinelShowsEpochMinutes ==
    \A i \in OracleIds :
        FailedReadShown(i) =>
            /\ rows[i].lastUpdateTime = 0
            /\ view.table[i].minsSince = Div(FromInt(view.nowSec), FromInt(60))
            /\ view.table[i].minsText = toFixed(view.table[i].minsSince, 1)
            /\ ~view.table[i].minsText.neg
            /\ view.table[i].minsText.scaled
                   \in {(view.nowSec + 2) \div 6, (view.nowSec + 3) \div 6}
            /\ view.nowSec >= 3 => view.table[i].minsText # toFixed(Zero, 1)

\* Reachable: the row of a failed read displayed at clock reading 1707,
\* 28.45 minutes after the epoch, shows 28.4: the double nearest to 28.45 is
\* below it.
C12_HalfWayShownBelow ==
    \E i \in OracleIds :
        /\ FailedReadShown(i)
        /\ view.nowSec = 1707
        /\ view.table[i].minsText.text = "28.4"

\* The row of a failed read displayed at clock reading 2000: 33.3 minutes.
C12_Witness ==
    \E i \in OracleIds :
        /\ FailedReadShown(i)
        /\ view.nowSec = 2000
        /\ view.table[i].minsText.scaled = 333
        /\ view.table[i].minsText.text = "33.3"

\* C13: the row of an on-chain read that failed is coloured red on time and
\* green on divergence at every clock reading of at least 1800 seconds.
C13_SentinelStaleAligned ==
    \A i \in OracleIds :
        (FailedReadShown(i) /\ view.nowSec >= 1800) =>
            /\ view.table[i].colorTime = "red"
            /\ view.table[i].diffRatio = Zero
            /\ view.table[i].colorDiff = "green"

\* The row of a failed read displayed red and green at a clock reading from
\* 1800 on, in a behaviour whose Hermes request had returned a price.
C13_Witness ==
    \E i \in OracleIds :
        /\ FailedReadShown(i)
        /\ view.nowSec >= 1800
        /\ view.table[i].colorTime = "red"
        /\ view.table[i].colorDiff = "green"
        /\ \E l \in LoadIds : ~HermesFailed(loads[l].resps[i])

\* The row of a failed read displayed at a clock reading before 1800 is not
\* red: the bound on the clock reading is needed.
C13_EarlyClockNotStale ==
    \E i \in OracleIds :
        /\ FailedReadShown(i)
        /\ view.nowSec < 1800
        /\ view.table[i].colorTime = "goldenrod"

(***************************************************************************)
(* Properties of the two normalisations.                                   *)
(***************************************************************************)
\* C14: the row of an oracle whose Hermes request failed and whose on-chain
\* read returned a price other than 0 has freshPrice 0; displayed, its
\* ratio is exactly -1 and it is coloured red.
C14_ReferenceFailureDivergent ==
    \A l \in LoadIds :
        loads[l].pc = "done" =>
            \A i \in OracleIds :
                LET row == loads[l].newRows[i]
                IN  (/\ HermesFailed(loads[l].resps[i])
                     /\ loads[l].results[i].kind = "ok"
                     /\ row.lastOnChainPrice # Zero)
                        => /\ row.freshPrice = Zero
                           /\ (TableShown /\ SameData(rows, loads[l].newRows)) =>
                                  /\ view.table[i].diffRatio = FromInt(-1)
                                  /\ view.table[i].colorDiff = "red"

\* A displayed row of a failed Hermes request and an on-chain price other
\* than 0, with ratio -1.
C14_Witness ==
    \E l \in LoadIds :
        /\ loads[l].pc = "done"
        /\ TableShown
        /\ rows = loads[l].newRows
        /\ \E i \in OracleIds :
               /\ HermesFailed(loads[l].resps[i])
               /\ loads[l].results[i].kind = "ok"
               /\ rows[i].lastOnChainPrice # Zero
               /\ view.table[i].diffRatio = FromInt(-1)

\* The payload has a first entry with a price string and an exponent.
PricedEntry(resp) ==
    /\ ~HermesFailed(resp)
    /\ resp.json
    /\ resp.hasParsed
    /\ Len(resp.parsed) > 0
    /\ ~resp.parsed[1].isNull
    /\ resp.parsed[1].hasPrice
    /\ resp.parsed[1].hasSig
    /\ resp.parsed[1].hasExpo

\* The payload has a first entry with a decimal significand and an exponent
\* in the range of the doubles.
PlainPrice(resp) ==
    /\ PricedEntry(resp)
    /\ Len(resp.parsed[1].sig) > 0
    /\ \A k \in 1..Len(resp.parsed[1].sig) : resp.parsed[1].sig[k] \in DigitChars
    /\ resp.parsed[1].expo \in -20..20

Example2501 == <<50, 53, 48, 49, 48, 48, 48, 48, 48, 48, 48>>  \* "25010000000"

\* "102" between a no-break space (U+00A0) and a line separator (U+2028).
Padded102 == <<160, 49, 48, 50, 8232>>

\* "5" after U+00E9, a letter, and after U+200B, a format character that
\* is no white space.
Letter5 == <<233, 53>>

ZeroWidth5 == <<8203, 53>>

\* C15: where both requests succeeded, lastOnChainPrice is the raw answer
\* divided by 10^8 and freshPrice is significand * 10^exponent, the power,
\* the product and the quotient each rounded to a double: the answer
\* 250000000000 gives 2500, the significand 25010000000 with exponent -7
\* gives 2501, and the two give the ratio 0.0004, coloured green.  The
\* significand is the price string as Number() reads it: white space
\* around the digits is dropped (" 102 " with exponent -2 gives 102 * 0.01)
\* and any other character beside them makes the price NaN.
C15_Normalisation ==
    \A l \in LoadIds :
        loads[l].pc = "done" =>
            \A i \in OracleIds :
                LET row == loads[l].newRows[i]
                    resp == loads[l].resps[i]
                    result == loads[l].results[i]
                    entry == resp.parsed[1]
                IN  result.kind = "ok" =>
                        /\ row.lastOnChainPrice =
                               Div(Norm(result.answer.m, 1, result.answer.z),
                                   FromInt(100000000))
                        /\ result.answer = [m |-> 25, z |-> 10] =>
                               row.lastOnChainPrice = FromInt(2500)
                        /\ (PricedEntry(resp) /\ entry.sig = Padded102
                                               /\ entry.expo = -2) =>
                               row.freshPrice = Mul(FromInt(102), TenPow(-2))
                        /\ (PricedEntry(resp) /\ entry.sig \in {Letter5, ZeroWidth5}) =>
                               row.freshPrice = NaN
                        /\ PlainPrice(resp) =>
                               /\ row.freshPrice =
                                      Mul(StringToNumber(entry.sig),
                                          TenPow(entry.expo))
                               /\ (entry.sig = Example2501 /\ entry.expo = -7) =>
                                      row.freshPrice = FromInt(2501)
                               /\ (/\ entry.sig = Example2501
                                   /\ entry.expo = -7
                                   /\ result.answer = [m |-> 25, z |-> 10]
                                   /\ TableShown
                                   /\ SameData(rows, loads[l].newRows)) =>
                                      /\ view.table[i].diffRatio = Ratio(4, 10000)
                                      /\ view.table[i].colorDiff = "green"

\* The row of the answer 250000000000 and of the significand 25010000000
\* with exponent -7, displayed with ratio 0.0004.
C15_Witness ==
    \E l \in LoadIds :
        /\ loads[l].pc = "done"
        /\ TableShown
        /\ rows = loads[l].newRows
        /\ \E i \in OracleIds :
               /\ loads[l].results[i].answer = [m |-> 25, z |-> 10]
               /\ PlainPrice(loads[l].resps[i])
               /\ loads[l].resps[i].parsed[1].sig = Example2501
               /\ loads[l].resps[i].parsed[1].expo = -7
               /\ rows[i].lastOnChainPrice = FromInt(2500)
               /\ rows[i].freshPrice = FromInt(2501)
               /\ view.table[i].diffRatio = Ratio(4, 10000)
               /\ view.table[i].colorDiff = "green"

(***************************************************************************)
(* Properties of the evaluation as a whole and of handleUpdate.            *)
(***************************************************************************)
UpdateIds == 1..Len(updates)

\* Invocation u is awaiting an answer.
Pending(u) == updates[u].pc # "done"

\* The address invocation u was called for.
UpdateAddress(u) == updates[u].row.oracle.wrapperAddress

\* Two finished loadData invocations whose requests obtained the same
\* answers pushed equal rows.
SameAnswersSameRows ==
    \A l1, l2 \in LoadIds :
        (/\ loads[l1].pc = "done"
         /\ loads[l2].pc = "done"
         /\ loads[l1].resps = loads[l2].resps
         /\ loads[l1].results = loads[l2].results)
            => loads[l1].newRows = loads[l2].newRows

\* What a rendered row shows of the evaluation.
Shown(cell) == [cell EXCEPT !.disabled = FALSE]

\* Two successive renders of the table at the same clock reading, of rows
\* that differ at most in their update-in-flight flags, show the same
\* ratios, minutes and colours.
SameRowsSameRender ==
    (/\ view.screen = "table"
     /\ view'.screen = "table"
     /\ view.nowSec = view'.nowSec
     /\ SameData(rows, rows'))
        => /\ Len(view'.table) = Len(view.table)
           /\ \A i \in 1..Len(view.table) :
                  Shown(view'.table[i]) = Shown(view.table[i])

\* C16: the evaluation is a function of the oracle list, the answers of the
\* requests and the clock reading: loadData invocations with equal answers
\* push equal rows, whatever earlier invocations did and whatever updates
\* are in flight, and rows equal up to their flags are rendered equally.
C16_EvaluationDeterministic == []SameAnswersSameRows /\ [][SameRowsSameRender]_vars

\* Two finished loadData invocations with equal answers, one price among
\* them, the later of which finished while a handleUpdate was pending.
C16_Witness ==
    \E l1, l2 \in LoadIds :
        /\ l1 < l2
        /\ loads[l1].pc = "done"
        /\ loads[l2].pc = "done"
        /\ loads[l1].resps = loads[l2].resps
        /\ loads[l1].results = loads[l2].results
        /\ rows = loads[l2].newRows
        /\ \E i \in OracleIds : rows[i].freshPrice # Zero
        /\ \E u \in UpdateIds : Pending(u)

\* Invocation u starts in this step.
Started(u) == Len(updates') = Len(updates) + 1 /\ u = Len(updates')

\* Invocation u reaches its finally block in this step.
Finished(u) == u \in UpdateIds /\ Pending(u) /\ updates'[u].pc = "done"

\* Invocation u receives an answer and awaits the next in this step.
Advanced(u) ==
    u \in UpdateIds /\ updates'[u] # updates[u] /\ updates'[u].pc # "done"

\* In this step the rows with address a get flag, and no other row's flag
\* changes.
FlagsSetFor(a, flag) ==
    /\ Len(rows') = Len(rows)
    /\ \A i \in 1..Len(rows) :
           rows'[i].isUpdating =
               IF rows[i].oracle.wrapperAddress = a THEN flag ELSE rows[i].isUpdating

UpdateStepKeyedByAddress ==
    \A u \in 1..Len(updates') :
        /\ Started(u) => FlagsSetFor(updates'[u].row.oracle.wrapperAddress, TRUE)
        /\ Finished(u) => FlagsSetFor(UpdateAddress(u), FALSE)
        /\ Advanced(u) =>
               /\ Len(rows') = Len(rows)
               /\ \A i \in 1..Len(rows) : rows'[i].isUpdating = rows[i].isUpdating

\* C17: a step of a handleUpdate invocation changes the isUpdating flag of
\* the rows with its own address only: its start sets it, its end clears
\* it, and the flags of the rows with other addresses stay as they are,
\* however the invocations interleave.
C17_FlagKeyedByAddress == [][UpdateStepKeyedByAddress]_vars

\* An invocation has finished while an invocation started before it, for
\* another address, is still pending: the flag of the first is cleared and
\* the flag of the other is still set.
C17_Witness ==
    \E u1, u2 \in UpdateIds :
        /\ u2 < u1
        /\ ~Pending(u1)
        /\ Pending(u2)
        /\ UpdateAddress(u1) # UpdateAddress(u2)
        /\ \E i, j \in 1..Len(rows) :
               /\ rows[i].oracle.wrapperAddress = UpdateAddress(u1)
               /\ rows[j].oracle.wrapperAddress = UpdateAddress(u2)
               /\ ~rows[i].isUpdating
               /\ rows[j].isUpdating

\* C18: a row for which a handleUpdate has started and not finished has
\* isUpdating = TRUE and a disabled button, and at most one invocation per
\* address is pending, also after a loadData has set the rows.
C18_PendingUpdateKeepsFlag ==
    /\ \A u \in UpdateIds :
           Pending(u) =>
               \A i \in 1..Len(rows) :
                   rows[i].oracle.wrapperAddress = UpdateAddress(u) =>
                       /\ rows[i].isUpdating
                       /\ view.screen = "table" => view.table[i].disabled
    /\ \A u1, u2 \in UpdateIds :
           (Pending(u1) /\ Pending(u2) /\ UpdateAddress(u1) = UpdateAddress(u2))
               => u1 = u2

\* In this step a handleUpdate ran: from a click to its first await or its
\* early return, or from an answer to its next await or its end.
HandleUpdateStep == updates' # updates \/ lastAlert' # lastAlert

UpdateLeavesRowData ==
    HandleUpdateStep =>
        /\ SameData(rows, rows')
        /\ \A i \in 1..Len(rows) :
               rows'[i].isUpdating # rows[i].isUpdating =>
                   \E u \in 1..Len(updates') :
                       /\ Started(u) \/ Finished(u)
                       /\ updates'[u].row.oracle.wrapperAddress =
                              rows[i].oracle.wrapperAddress

\* C19: every step of handleUpdate, on its failing paths as on its
\* successful one, leaves the number and order of the rows and each row's
\* oracle, lastOnChainPrice, freshPrice and lastUpdateTime as they were; it
\* changes isUpdating only, and only of rows with the address of the row it
\* was called with.
C19_UpdateLeavesRowData == [][UpdateLeavesRowData]_vars

\* An invocation has ended after a loadData set rows with another price
\* than the row it was called with carries.
C19_Witness ==
    \E u \in UpdateIds :
        /\ ~Pending(u)
        /\ \E i \in 1..Len(rows) :
               /\ rows[i].oracle = updates[u].row.oracle
               /\ rows[i].freshPrice # updates[u].row.freshPrice
               /\ ~rows[i].isUpdating

\* Every writeContract call is an updatePrice call on the wrapper of the
\* row its invocation was called with, carrying the hex strings of the
\* answer to that invocation's own Hermes request, each with its prefix,
\* and the fee that invocation read.
TxCarriesOwnFetch ==
    \A k \in 1..Len(txs) :
        LET u  == txs[k].update
            up == updates[u]
        IN  /\ u \in UpdateIds
            /\ txs[k].functionName = "updatePrice"
            /\ txs[k].address = up.row.oracle.wrapperAddress
            /\ Len(up.resps) = 1
            /\ up.resps[1] \in network.hermes[up.row.oracle.pythFeedId]
            /\ up.resps[1].ok
            /\ up.resps[1].hasBinary
            /\ Len(txs[k].args) = Len(up.resps[1].binary)
            /\ \A j \in 1..Len(txs[k].args) :
                   /\ txs[k].args[j].has0x
                   /\ txs[k].args[j].body = up.resps[1].binary[j].body
            /\ txs[k].value = up.fee

\* An invocation starts without an answer and without a call, and a call is
\* made only by an invocation that has just read its fee.
FetchAfterClick ==
    /\ \A u \in 1..Len(updates') :
           Started(u) =>
               /\ updates'[u].resps = <<>>
               /\ \A k \in 1..Len(txs') : txs'[k].update # u
    /\ txs' # txs =>
           /\ Len(txs') = Len(txs) + 1
           /\ SubSeq(txs', 1, Len(txs)) = txs
           /\ LET u == txs'[Len(txs')].update
              IN  u \in UpdateIds /\ updates[u].pc = "fee" /\ updates'[u].pc = "tx"

\* C20: every updatePrice call made by handleUpdate carries the update data
\* of the Hermes answer that the same invocation requested after the click,
\* never the answer a loadData got for the feed.
C20_UpdateRefetchesPayload == []TxCarriesOwnFetch /\ [][FetchAfterClick]_vars

\* A call carrying update data although the loadData that set the rows got
\* no binary part for the feed.
C20_Witness ==
    \E k \in 1..Len(txs) :
        /\ txs[k].args # <<>>
        /\ \E l \in LoadIds, i \in OracleIds :
               /\ loads[l].pc = "done"
               /\ rows = loads[l].newRows
               /\ typedOracles[i].pythFeedId = updates[txs[k].update].row.oracle.pythFeedId
               /\ loads[l].resps[i].binary = <<>>

(***************************************************************************)
(* Properties of the order of the requests and of the wallet guards.       *)
(***************************************************************************)
\* Where a loadData stands in its Hermes loop: awaiting the fetch or the
\* body of the response.
HermesPcs == {"hermes", "hermes:json"}

\* The requests of invocation l that have been issued and not answered:
\* the Hermes request or the on-chain read of the oracle it stands at.
Outstanding(l) ==
    IF loads[l].pc = "done" THEN {}
    ELSE {[kind |-> IF loads[l].pc \in HermesPcs THEN "hermes" ELSE loads[l].pc,
           oracle |-> loads[l].i]}

\* The requests of invocation l answered so far are the Hermes requests of
\* the first oracles of the list, in list order, and, once all of these are
\* answered, the on-chain reads of the first oracles, in list order.
AnsweredInListOrder(l) ==
    LET ld == loads[l]
        n  == Len(typedOracles)
    IN  /\ Cardinality(Outstanding(l)) <= 1
        /\ Len(ld.resps) = (IF ld.pc \in HermesPcs THEN ld.i - 1 ELSE n)
        /\ Len(ld.results) =
               (IF ld.pc \in HermesPcs THEN 0 ELSE IF ld.pc = "chain" THEN ld.i - 1 ELSE n)
        /\ ld.pc = "hermes:json" <=> ld.pending # <<>>
        /\ ld.pending # <<>> =>
               /\ ld.pending[1] \in network.hermes[typedOracles[ld.i].pythFeedId]
               /\ ~FetchThrows(ld.pending[1])
        /\ \A k \in 1..Len(ld.resps) :
               ld.resps[k] \in network.hermes[typedOracles[k].pythFeedId]
        /\ \A k \in 1..Len(ld.results) :
               ld.results[k] \in network.chain[typedOracles[k].wrapperAddress]
        /\ ld.pc = "chain" => Len(ld.resps) = n
        /\ Len(ld.results) > 0 => Len(ld.resps) = n

\* A step answers at most one request of an invocation, and answers an
\* on-chain read only when every Hermes request has been answered.
OneAnswerAtATime ==
    \A l \in LoadIds :
        /\ Len(loads'[l].resps) + Len(loads'[l].results)
               <= Len(loads[l].resps) + Len(loads[l].results) + 1
        /\ Len(loads'[l].results) > Len(loads[l].results) =>
               Len(loads[l].resps) = Len(typedOracles)

\* C21: a loadData has at most one request outstanding at any time; its
\* Hermes requests are issued in the order of the oracle list, and all of
\* them have been answered, by a payload or a failure, before its first
\* on-chain read is issued.
C21_RequestsSequential ==
    [](\A l \in LoadIds : AnsweredInListOrder(l)) /\ [][OneAnswerAtATime]_vars

\* A loadData over at least two oracles awaiting its second on-chain read,
\* after a Hermes request that failed.
C21_Witness ==
    \E l \in LoadIds :
        /\ Len(typedOracles) >= 2
        /\ Outstanding(l) = {[kind |-> "chain", oracle |-> 2]}
        /\ \E k \in OracleIds : HermesFailed(loads[l].resps[k])

\* Before any loadData was started no wallet client is connected, the rows
\* are empty, nothing is loading and the page shows the empty message.
NothingLoadedWithoutWallet ==
    loads = <<>> =>
        /\ ~agwClient
        /\ rows = <<>>
        /\ ~isLoading
        /\ view.screen = "empty"
        /\ view.table = <<>>

\* A step that ends without a wallet client starts no loadData.
NoLoadWithoutWallet == ~agwClient' => Len(loads') = Len(loads)

\* C22: as long as no wallet client has been connected Home has started no
\* loadData, so it has issued no Hermes request and no on-chain read, the
\* rows are empty and the page shows "No oracles found or user not
\* connected." in place of the table.
C22_LoadsOnlyWithWallet ==
    []NothingLoadedWithoutWallet /\ [][NoLoadWithoutWallet]_vars

\* Home with two configured oracles and no wallet client yet, rendered
\* again at the later clock reading: still the empty message.
C22_Witness ==
    /\ loads = <<>>
    /\ ~agwClient
    /\ Len(typedOracles) = MaxOracles
    /\ \A t \in ClockReadings : t <= nowSec
    /\ view.screen = "empty"

(***************************************************************************)
(* Properties of the steps of handleUpdate.                                *)
(***************************************************************************)
\* The writeContract calls of invocation u.
CallsOf(u) == {k \in 1..Len(txs) : txs[k].update = u}

\* Where invocation u stands agrees with the answers it has obtained and
\* with the calls it has made: no fee read before a usable Hermes answer,
\* no call before a fee, at most one call, and the call carries the array
\* passed to getRequiredFee and the fee that read returned.
ProtocolState(u) ==
    LET up == updates[u]
        fetched == Len(up.resps) = 1 /\ ~UpdateFetchThrows(up.resps[1])
        feeRead == Len(up.feeResults) = 1 /\ up.feeResults[1].kind = "ok"
    IN  /\ Len(up.resps) <= 1 /\ Len(up.feeResults) <= 1 /\ Len(up.txResults) <= 1
        /\ up.pc \in {"fetch", "json"} => up.resps = <<>>
        /\ up.pc = "json" <=> up.pending # <<>>
        /\ up.pending # <<>> => ~FetchThrows(up.pending[1])
        /\ up.pc = "fee" => fetched /\ up.feeResults = <<>>
        /\ up.pc = "tx" => fetched /\ feeRead /\ up.txResults = <<>>
        /\ up.feeResults # <<>> => fetched
        /\ up.txResults # <<>> => feeRead
        /\ Cardinality(CallsOf(u)) = (IF fetched /\ feeRead THEN 1 ELSE 0)
        /\ \A k \in CallsOf(u) :
               /\ txs[k].functionName = "updatePrice"
               /\ txs[k].address = up.row.oracle.wrapperAddress
               /\ txs[k].args = up.feeArgs
               /\ txs[k].value = up.feeResults[1].fee

\* An invocation moves from the Hermes request to the reading of its body,
\* from there to the fee read, from the fee read to the call, and from any
\* of the four to its end.
ProtocolOrder ==
    \A u \in UpdateIds :
        updates'[u].pc # updates[u].pc =>
            \/ updates[u].pc = "fetch" /\ updates'[u].pc \in {"json", "done"}
            \/ updates[u].pc = "json" /\ updates'[u].pc \in {"fee", "done"}
            \/ updates[u].pc = "fee" /\ updates'[u].pc \in {"tx", "done"}
            \/ updates[u].pc = "tx" /\ updates'[u].pc = "done"

\* C23: a handleUpdate requests the Hermes payload, then reads
\* getRequiredFee, then calls updatePrice; the call is made only after both
\* succeeded, with the array passed to getRequiredFee and with the fee read
\* as value.
C23_UpdateProtocolOrder ==
    [](\A u \in UpdateIds : ProtocolState(u)) /\ [][ProtocolOrder]_vars

\* An invocation whose call was accepted, with a fee above 0, next to an
\* invocation that made no call.
C23_Witness ==
    \E u, v \in UpdateIds :
        /\ updates[u].pc = "done"
        /\ updates[u].txResults # <<>>
        /\ updates[u].txResults[1].kind = "ok"
        /\ \E k \in CallsOf(u) : txs[k].value > 0 /\ txs[k].args # <<>>
        /\ updates[v].pc = "done"
        /\ CallsOf(v) = {}

\* How invocation u ended.
Outcome(up) ==
    IF up.pc # "done" THEN "pending"
    ELSE IF UpdateFetchThrows(up.resps[1]) THEN "fetch failed"
    ELSE IF up.feeResults[1].kind # "ok" THEN "fee read failed"
    ELSE IF up.txResults[1].kind # "ok" THEN "transaction failed"
    ELSE "sent"

FlagReleasedAtEnd ==
    \A u \in UpdateIds :
        Finished(u) =>
            /\ Outcome(updates'[u]) \in
                   {"fetch failed", "fee read failed", "transaction failed", "sent"}
            /\ Len(rows') = Len(rows)
            /\ \A i \in 1..Len(rows') :
                   rows'[i].oracle.wrapperAddress = UpdateAddress(u) =>
                       /\ ~rows'[i].isUpdating
                       /\ view'.screen = "table" => ~view'.table[i].disabled

\* C24: the step in which a handleUpdate ends, by a failed Hermes request,
\* a failed fee read, a rejected call or an accepted one, leaves isUpdating
\* of the rows with its address FALSE.
C24_FlagAlwaysReleased == [][FlagReleasedAtEnd]_vars

\* An invocation ended by a rejected call, its row's flag cleared.
C24_Witness ==
    \E u \in UpdateIds :
        /\ Outcome(updates[u]) = "transaction failed"
        /\ lastAlert = "Error"
        /\ \E i \in 1..Len(rows) :
               /\ rows[i].oracle.wrapperAddress = UpdateAddress(u)
               /\ ~rows[i].isUpdating

NoWalletText == "Connect with Abstract first."

NoWalletNoOp ==
    /\ ~agwClient =>
           /\ Len(updates') = Len(updates)
           /\ \A i \in 1..Len(rows) :
                  (Len(rows') = Len(rows) /\ ~rows[i].isUpdating) => ~rows'[i].isUpdating
    /\ (lastAlert' = NoWalletText /\ lastAlert # NoWalletText) =>
           /\ ~agwClient
           /\ UNCHANGED <<rows, updates, txs, loads, isLoading, view, agwClient>>

\* C25: without a wallet client no handleUpdate invocation starts and no
\* flag is set, and the step that shows "Connect with Abstract first."
\* changes neither the rows nor the invocations nor the calls.
C25_NoWalletNoOp == [][NoWalletNoOp]_vars

\* The table is shown, the wallet client is gone and the alert was shown.
C25_Witness ==
    /\ ~agwClient
    /\ lastAlert = NoWalletText
    /\ view.screen = "table"
    /\ Len(rows) > 0
    /\ txs = <<>>

(***************************************************************************)
(* Properties of overlapping loadData invocations.                         *)
(***************************************************************************)
\* Invocation l has started and not finished.
InProgress(l) == loads[l].pc # "done"

\* C26: isLoading is TRUE in every state in which some loadData invocation
\* is in progress, overlapping invocations included, and FALSE in every
\* state in which none is.
C26_LoadingCoversLoads == isLoading <=> (\E l \in LoadIds : InProgress(l))

\* C27: once every loadData invocation has finished, the rows are those the
\* invocation started last pushed.
C27_NewestLoadWins ==
    (loads # <<>> /\ \A l \in LoadIds : ~InProgress(l)) =>
        SameData(rows, loads[Len(loads)].newRows)

(***************************************************************************)
(* Properties of the Trade page.                                           *)
(***************************************************************************)
DerivationPending == \E d \in 1..Len(derivations) : derivations[d].pc = "pending"

\* C28: whenever scAddress is not empty and no derivation is pending it is
\* the address derived from the current signer address, and whenever the
\* signer address is absent and no derivation is pending it is empty:
\* neither a failed derivation nor one for an earlier signer that is
\* answered late leaves the address of another or of no signer.
C28_ScAddressMatchesSigner ==
    ~DerivationPending =>
        /\ scAddress # NoScAddress =>
               eoaAddress # 0 /\ scAddress = ScAddressOf(eoaAddress)
        /\ eoaAddress = 0 => scAddress = NoScAddress

(***************************************************************************)
(* Properties of the FAQ page.                                             *)
(***************************************************************************)
\* The toggle calls follow one another on the state: each starts from what
\* the one before left, and the state is what the last one left.
TogglesChained ==
    /\ \A t \in 1..Len(toggles) :
           toggles[t].before = IF t = 1 THEN NoneExpanded ELSE toggles[t - 1].after
    /\ expanded = IF toggles = <<>> THEN NoneExpanded ELSE toggles[Len(toggles)].after

\* toggle(i) collapses i when i is the expanded entry and expands i alone
\* otherwise.
ToggleExpandsOrCollapses ==
    \A t \in 1..Len(toggles) :
        /\ toggles[t].before = <<toggles[t].i>> => ShownAnswers(toggles[t].after) = {}
        /\ toggles[t].before # <<toggles[t].i>> =>
               ShownAnswers(toggles[t].after) = {toggles[t].i}

\* Two toggles of the same entry in a row restore the state before them when
\* that state was none or that entry.
DoubleToggleRestores ==
    \A t \in 1..(Len(toggles) - 1) :
        (/\ toggles[t].i = toggles[t + 1].i
         /\ toggles[t].before \in {NoneExpanded, <<toggles[t].i>>})
            => toggles[t + 1].after = toggles[t].before

\* C30: after any sequence of toggles at most one FAQ entry is expanded;
\* toggle(i) expands i, collapsing any other entry, when i is not the
\* expanded entry and collapses it when it is; toggling the same entry twice
\* in a row restores the expanded state before the two toggles when that
\* state was none or i.
C30_Accordion ==
    /\ Cardinality(ShownAnswers(expanded)) <= 1
    /\ TogglesChained
    /\ ToggleExpandsOrCollapses
    /\ DoubleToggleRestores

\* Entry 4 is expanded, then toggled twice in a row: it is expanded again.
C30_Witness ==
    /\ Len(toggles) = 3
    /\ toggles[1].i = 4 /\ toggles[2].i = 4 /\ toggles[3].i = 4
    /\ toggles[2].before = <<4>>
    /\ toggles[2].after = NoneExpanded
    /\ expanded = <<4>>

\* Reachable: toggling entry 4 twice while entry 7 was expanded leaves none
\* expanded.
C30_DoubleToggleAfterOther ==
    /\ Len(toggles) = 3
    /\ toggles[1].i = 7 /\ toggles[2].i = 4 /\ toggles[3].i = 4
    /\ toggles[2].after = <<4>>
    /\ expanded = NoneExpanded

(***************************************************************************)
(* Properties of the Stats page.                                           *)
(***************************************************************************)
SupplyStats == {"circSupply", "burned"}

UsdStats == {"ethUsdPrice", "firePriceUsd", "marketCap", "burnedValue"}

AllStats == SupplyStats \cup {"firePriceEth"} \cup UsdStats

\* The statistics loadStats sets after the step named.
StatsSetAfter(at) ==
    CASE at \in {"totalSupply", "devBal", "burnedBal"} -> AllStats
      [] at \in {"token0", "token1", "reserves", "getAddress"} ->
             {"firePriceEth"} \cup UsdStats
      [] at \in {"fetch", "json", "parsed"} -> UsdStats
      [] OTHER -> {}

\* The value a finished invocation r computed for statistic f.
StatsComputed(r, f) ==
    CASE f = "circSupply" -> Circ(r)
      [] f = "burned" -> BurnedTokens(r)
      [] f = "firePriceEth" -> FirePriceInEth(r)
      [] f = "ethUsdPrice" -> r.ethPriceUsd
      [] f = "firePriceUsd" -> Mul(FirePriceInEth(r), r.ethPriceUsd)
      [] f = "marketCap" -> Mul(Circ(r), Mul(FirePriceInEth(r), r.ethPriceUsd))
      [] f = "burnedValue" ->
             Mul(BurnedTokens(r), Mul(FirePriceInEth(r), r.ethPriceUsd))

StatsFinishing(l) ==
    /\ l \in 1..Len(statsLoads)
    /\ statsLoads[l].pc # "done"
    /\ statsLoads'[l].pc = "done"

\* The step in which an invocation ends leaves loading false, ends it by
\* the end of the try block or by the catch block, and on a failure changes
\* no statistic: those set after the failing step keep the value they had,
\* those set before it the value they were given.
StatsFinishStep ==
    \A l \in 1..Len(statsLoads) :
        StatsFinishing(l) =>
            /\ stats'.loading = FALSE
            /\ statsLoads'[l].outcome \in {"ok", "caught"}
            /\ statsLoads'[l].outcome = "ok" <=> statsLoads'[l].failedAt = "none"
            /\ statsLoads'[l].outcome = "caught" =>
                   /\ statsLoads'[l].failedAt = statsLoads[l].pc
                        \/ statsLoads'[l].failedAt \in {"getAddress", "parsed"}
                   /\ \A f \in AllStats : stats'[f] = stats[f]

\* A step in which an invocation goes on sets the statistics of that step
\* to the values it computed, and no other.
StatsSetStep ==
    \A l \in 1..Len(statsLoads) :
        (statsLoads'[l] # statsLoads[l] /\ statsLoads'[l].outcome # "caught") =>
            LET r     == statsLoads'[l]
                setBy == StatsSetAfter(statsLoads[l].pc) \ StatsSetAfter(r.pc)
            IN  \A f \in AllStats :
                    stats'[f] = IF f \in setBy THEN StatsComputed(r, f) ELSE stats[f]

\* With one invocation, after a failure the statistics set after the failing
\* step are the initial 0 and the others the values computed.
StatsAfterSoleFailure ==
    (Len(statsLoads) = 1 /\ statsLoads[1].outcome = "caught") =>
        \A f \in AllStats :
            stats[f] = IF f \in StatsSetAfter(statsLoads[1].failedAt)
                       THEN Zero
                       ELSE StatsComputed(statsLoads[1], f)

\* Once every invocation has finished, loading is false.
StatsLoadingEnds ==
    (\A l \in 1..Len(statsLoads) : statsLoads[l].pc = "done") => ~stats.loading

\* C29: after loadStats finishes on any path, all reads answered or any
\* read or the reference fetch throwing, loading is false; when a step
\* fails, every statistic set after that step keeps its previous value,
\* initially 0, and those set before it keep their newly computed values;
\* no error escapes loadStats.
C29_StatsLoadAtomic ==
    /\ [](StatsLoadingEnds /\ StatsAfterSoleFailure)
    /\ [][StatsFinishStep /\ StatsSetStep]_vars

\* The request for the ETH/USD price threw after every read was answered:
\* the supply and the FIRE price in ETH are set, the values in USD are 0.
C29_Witness ==
    /\ Len(statsLoads) = 1
    /\ statsLoads[1].failedAt = "fetch"
    /\ ~stats.loading
    /\ stats.circSupply = FromInt(850)
    /\ stats.burned = FromInt(50)
    /\ stats.firePriceEth = Ratio(1, 4)
    /\ \A f \in UsdStats : stats[f] = Zero

\* Reachable: every step succeeds and all seven statistics are set.
C29_AllStepsSucceed ==
    /\ Len(statsLoads) = 1
    /\ statsLoads[1].outcome = "ok"
    /\ ~stats.loading
    /\ stats.circSupply = FromInt(850)
    /\ stats.firePriceEth = Ratio(1, 4)
    /\ stats.ethUsdPrice = FromInt(2000)
    /\ stats.firePriceUsd = FromInt(500)
    /\ stats.marketCap = FromInt(425000)
    /\ stats.burnedValue = FromInt(25000)

\* Reachable: a token0 that is no address makes getAddress throw, after the
\* supply was set.
C29_BadToken0 ==
    /\ Len(statsLoads) = 1
    /\ statsLoads[1].failedAt = "getAddress"
    /\ ~stats.loading
    /\ stats.burned = FromInt(50)
    /\ stats.firePriceEth = Zero
====
